---- MODULE Spec2Model ----
(***************************************************************************)
(* Incremental discovery and manifest engine of neura_pipeline             *)
(* (steps/discover_refactored.py, fp/fingerprint.py, io/fs_local.py,       *)
(* core/statuses.py, core/constants.py).                                   *)
(*                                                                         *)
(* Conventions.  An optional value (Python None / a value) is the empty    *)
(* sequence or a one-element sequence.  A path is the triple               *)
(* <<chunk, directory, suffix>>: directory "data" stands for               *)
(* <root>/data/chunk-<chunk>/episode_<suffix>.parquet, a camera name for   *)
(* <root>/videos/chunk-<chunk>/<camera>/episode_<suffix>.mp4; the suffix   *)
(* is the sequence of characters after the last "_" of the file stem.      *)
(* File content is a run-length encoded byte string, so that files of      *)
(* 50 MiB are representable.  sha256 is modelled as injective: a digest    *)
(* is the (normalised) byte string that was fed to the hash.               *)
(***************************************************************************)
EXTENDS Integers, Sequences, FiniteSets, TLC

VARIABLES
    tree,       \* the data root: path -> optional file
    disk,       \* content of the manifest path "out" and of its ".tmp" sibling
    pc,         \* position of the running discover_incremental call
    run,        \* the running call: arguments, previous manifest, df_all
    last,       \* record of the last finished call
    before,     \* record of the finished call before that
    nruns,      \* number of calls started (also the clock of utc_now)
    nchanges    \* number of file-system changes made by the environment

vars == <<tree, disk, pc, run, last, before, nruns, nchanges>>

----------------------------------------------------------------------------
(* Bounds *)

MaxRuns == 2
MaxChanges == 1

----------------------------------------------------------------------------
(* core/constants.py, core/statuses.py *)

SAMPLE_BYTES == 65536
STABILITY_MIN_BYTES == 52428800
FINGERPRINT_ALGO == "size+mtime+sha(head|tail)-v1"
CAMERAS == <<"observation.images.front", "observation.images.wrist">>

Status == {"NEW", "CHANGED", "UNCHANGED", "MISSING_SIDE", "DELETED",
           "ORPHAN_VIDEO", "PENDING", "ERROR"}

\* The value of a member, which is what a Status object becomes when a
\* dataclass row is loaded into a polars string column.
StatusValue(s) == s

\* str(Status.X) of a (str, Enum) class: the qualified member name.
StatusStr(s) ==
    CASE s = "NEW" -> "Status.NEW"
      [] s = "CHANGED" -> "Status.CHANGED"
      [] s = "UNCHANGED" -> "Status.UNCHANGED"
      [] s = "MISSING_SIDE" -> "Status.MISSING_SIDE"
      [] s = "DELETED" -> "Status.DELETED"
      [] s = "ORPHAN_VIDEO" -> "Status.ORPHAN_VIDEO"
      [] s = "PENDING" -> "Status.PENDING"
      [] s = "ERROR" -> "Status.ERROR"

None == <<>>
Some(x) == <<x>>
IsNone(o) == o = <<>>
IsSome(o) == o # <<>>
Get(o) == o[1]

----------------------------------------------------------------------------
(* Byte strings, run-length encoded: a sequence of <<count, byte>> *)

RECURSIVE RleLen(_)
RleLen(r) == IF r = <<>> THEN 0 ELSE r[1][1] + RleLen(Tail(r))

RECURSIVE RleNorm(_)
RleNorm(r) ==
    IF r = <<>> THEN <<>>
    ELSE IF r[1][1] = 0 THEN RleNorm(Tail(r))
    ELSE LET rest == RleNorm(Tail(r)) IN
         IF rest # <<>> /\ rest[1][2] = r[1][2]
         THEN <<<<r[1][1] + rest[1][1], r[1][2]>>>> \o Tail(rest)
         ELSE <<r[1]>> \o rest

Min2(a, b) == IF a < b THEN a ELSE b
Max2(a, b) == IF a > b THEN a ELSE b

\* the bytes [off, off + n) of the string, fewer when the string ends
RECURSIVE RleRead(_, _, _)
RleRead(r, off, n) ==
    IF r = <<>> \/ n <= 0 THEN <<>>
    ELSE IF off >= r[1][1] THEN RleRead(Tail(r), off - r[1][1], n)
    ELSE LET take == Min2(n, r[1][1] - off) IN
         <<<<take, r[1][2]>>>> \o RleRead(Tail(r), 0, n - take)

----------------------------------------------------------------------------
(* fp/fingerprint.py *)

\* A file: content, modification time, and whether open() succeeds ("ok"),
\* raises PermissionError ("noread"), or already stat() raises it
\* ("nostat").  What an access to a path finds is an optional file.
FileSize(f) == RleLen(f.data)

\* Path.stat() and Path.exists() raise PermissionError for a file that
\* cannot be stat'ed
StatRaises(fo) == IsSome(fo) /\ Get(fo).access = "nostat"

\* stable_sleep_check; st1 and st2 are what the two stat() calls find, the
\* second one made only for a file of at least STABILITY_MIN_BYTES bytes
StableSleepCheck(st1, st2) ==
    IF IsNone(st1) THEN FALSE
    ELSE IF FileSize(Get(st1)) < STABILITY_MIN_BYTES THEN TRUE
    ELSE IF IsNone(st2) THEN FALSE
    ELSE /\ FileSize(Get(st1)) = FileSize(Get(st2))
         /\ Get(st1).mtime = Get(st2).mtime

\* a stat() of stable_sleep_check raises something else than
\* FileNotFoundError
StableRaises(st1, st2) ==
    \/ StatRaises(st1)
    \/ IsSome(st1) /\ FileSize(Get(st1)) >= STABILITY_MIN_BYTES /\ StatRaises(st2)

\* line 27: f.read(1024 * 1024)
ReadSize == 1024 * 1024

\* two strings without empty runs, one after the other
RleJoin(a, b) ==
    IF a = <<>> THEN b
    ELSE IF b = <<>> THEN a
    ELSE IF a[Len(a)][2] = b[1][2]
    THEN SubSeq(a, 1, Len(a) - 1) \o <<<<a[Len(a)][1] + b[1][1], b[1][2]>>>> \o Tail(b)
    ELSE a \o b

\* lines 26-29: the read() calls lo..hi of the loop, the first of them at
\* offset off; reads[j] is the content the j-th read() finds in the file.
\* Gives the bytes hashed, the offset after them, and whether a read()
\* returned nothing, which ends the loop.
RECURSIVE FullRead(_, _, _, _)
FullRead(reads, lo, hi, off) ==
    IF lo > hi THEN [data |-> <<>>, off |-> off, done |-> FALSE]
    ELSE IF lo = hi
    THEN LET chunk == RleNorm(RleRead(reads[lo], off, ReadSize)) IN
         [data |-> chunk, off |-> off + RleLen(chunk), done |-> chunk = <<>>]
    ELSE LET mid == (lo + hi) \div 2
             left == FullRead(reads, lo, mid, off)
         IN IF left.done THEN left
            ELSE LET right == FullRead(reads, mid + 1, hi, left.off) IN
                 [data |-> RleJoin(left.data, right.data), off |-> right.off, done |-> right.done]

\* a digest of the head sample alone
QuickShaHeadOnly(reads, size, sample_bytes, full_hash) ==
    IF full_hash THEN FullRead(reads, 1, Len(reads), 0).data
    ELSE RleNorm(RleRead(reads[1], 0, sample_bytes))

\* the bytes fed to the hash: size is the size stat() gave, reads[j] the
\* content the j-th read() of the opened file finds (lines 27, 31, 34)
QuickSha(reads, size, sample_bytes, full_hash) ==
    IF full_hash THEN FullRead(reads, 1, Len(reads), 0).data
    ELSE LET head == RleRead(reads[1], 0, sample_bytes) IN
         IF size > sample_bytes
         THEN RleNorm(head \o RleRead(reads[2], Max2(0, size - sample_bytes), sample_bytes))
         ELSE RleNorm(head)

\* the exception quick_file_fingerprint raises, None when it returns; st is
\* what fp.stat() finds (line 21), fo what open(fp, "rb") finds (line 24)
QuickError(st, fo) ==
    IF IsNone(st) THEN Some("FileNotFoundError")
    ELSE IF Get(st).access = "nostat" THEN Some("PermissionError")
    ELSE IF IsNone(fo) THEN Some("FileNotFoundError")
    ELSE IF Get(fo).access # "ok" THEN Some("PermissionError")
    ELSE None

\* a fingerprint that leaves out the modification time
QuickFileFingerprintNoMtime(st, reads, sample_bytes, full_hash) ==
    [size |-> FileSize(st), mtime_ns |-> 0,
     sha |-> QuickSha(reads, FileSize(st), sample_bytes, full_hash)]

\* st is the file fp.stat() found, reads the contents the read() calls
\* find in the file open() opened
QuickFileFingerprint(st, reads, sample_bytes, full_hash) ==
    [size |-> FileSize(st), mtime_ns |-> st.mtime,
     sha |-> QuickSha(reads, FileSize(st), sample_bytes, full_hash)]

\* sha256 of the key-sorted JSON of the mapping: injective on the mapping
CombineEpisodeFingerprint(parts) == parts

----------------------------------------------------------------------------
(* File names *)

\* A character of a file name is a one-character string when it is printable
\* ASCII and the string "U+hhhh" of its code point otherwise.
\* The characters int() takes for each decimal digit (Unicode category Nd)
DigitsOf == <<
    {"0", "U+0660", "U+06F0", "U+07C0", "U+0966", "U+09E6", "U+0A66",
     "U+0AE6", "U+0B66", "U+0BE6", "U+0C66", "U+0CE6", "U+0D66", "U+0DE6",
     "U+0E50", "U+0ED0", "U+0F20", "U+1040", "U+1090", "U+17E0", "U+1810",
     "U+1946", "U+19D0", "U+1A80", "U+1A90", "U+1B50", "U+1BB0", "U+1C40",
     "U+1C50", "U+A620", "U+A8D0", "U+A900", "U+A9D0", "U+A9F0", "U+AA50",
     "U+ABF0", "U+FF10", "U+104A0", "U+10D30", "U+11066", "U+110F0",
     "U+11136", "U+111D0", "U+112F0", "U+11450", "U+114D0", "U+11650",
     "U+116C0", "U+11730", "U+118E0", "U+11950", "U+11C50", "U+11D50",
     "U+11DA0", "U+16A60", "U+16AC0", "U+16B50", "U+1D7CE", "U+1D7D8",
     "U+1D7E2", "U+1D7EC", "U+1D7F6", "U+1E140", "U+1E2F0", "U+1E950",
     "U+1FBF0"},
    {"1", "U+0661", "U+06F1", "U+07C1", "U+0967", "U+09E7", "U+0A67",
     "U+0AE7", "U+0B67", "U+0BE7", "U+0C67", "U+0CE7", "U+0D67", "U+0DE7",
     "U+0E51", "U+0ED1", "U+0F21", "U+1041", "U+1091", "U+17E1", "U+1811",
     "U+1947", "U+19D1", "U+1A81", "U+1A91", "U+1B51", "U+1BB1", "U+1C41",
     "U+1C51", "U+A621", "U+A8D1", "U+A901", "U+A9D1", "U+A9F1", "U+AA51",
     "U+ABF1", "U+FF11", "U+104A1", "U+10D31", "U+11067", "U+110F1",
     "U+11137", "U+111D1", "U+112F1", "U+11451", "U+114D1", "U+11651",
     "U+116C1", "U+11731", "U+118E1", "U+11951", "U+11C51", "U+11D51",
     "U+11DA1", "U+16A61", "U+16AC1", "U+16B51", "U+1D7CF", "U+1D7D9",
     "U+1D7E3", "U+1D7ED", "U+1D7F7", "U+1E141", "U+1E2F1", "U+1E951",
     "U+1FBF1"},
    {"2", "U+0662", "U+06F2", "U+07C2", "U+0968", "U+09E8", "U+0A68",
     "U+0AE8", "U+0B68", "U+0BE8", "U+0C68", "U+0CE8", "U+0D68", "U+0DE8",
     "U+0E52", "U+0ED2", "U+0F22", "U+1042", "U+1092", "U+17E2", "U+1812",
     "U+1948", "U+19D2", "U+1A82", "U+1A92", "U+1B52", "U+1BB2", "U+1C42",
     "U+1C52", "U+A622", "U+A8D2", "U+A902", "U+A9D2", "U+A9F2", "U+AA52",
     "U+ABF2", "U+FF12", "U+104A2", "U+10D32", "U+11068", "U+110F2",
     "U+11138", "U+111D2", "U+112F2", "U+11452", "U+114D2", "U+11652",
     "U+116C2", "U+11732", "U+118E2", "U+11952", "U+11C52", "U+11D52",
     "U+11DA2", "U+16A62", "U+16AC2", "U+16B52", "U+1D7D0", "U+1D7DA",
     "U+1D7E4", "U+1D7EE", "U+1D7F8", "U+1E142", "U+1E2F2", "U+1E952",
     "U+1FBF2"},
    {"3", "U+0663", "U+06F3", "U+07C3", "U+0969", "U+09E9", "U+0A69",
     "U+0AE9", "U+0B69", "U+0BE9", "U+0C69", "U+0CE9", "U+0D69", "U+0DE9",
     "U+0E53", "U+0ED3", "U+0F23", "U+1043", "U+1093", "U+17E3", "U+1813",
     "U+1949", "U+19D3", "U+1A83", "U+1A93", "U+1B53", "U+1BB3", "U+1C43",
     "U+1C53", "U+A623", "U+A8D3", "U+A903", "U+A9D3", "U+A9F3", "U+AA53",
     "U+ABF3", "U+FF13", "U+104A3", "U+10D33", "U+11069", "U+110F3",
     "U+11139", "U+111D3", "U+112F3", "U+11453", "U+114D3", "U+11653",
     "U+116C3", "U+11733", "U+118E3", "U+11953", "U+11C53", "U+11D53",
     "U+11DA3", "U+16A63", "U+16AC3", "U+16B53", "U+1D7D1", "U+1D7DB",
     "U+1D7E5", "U+1D7EF", "U+1D7F9", "U+1E143", "U+1E2F3", "U+1E953",
     "U+1FBF3"},
    {"4", "U+0664", "U+06F4", "U+07C4", "U+096A", "U+09EA", "U+0A6A",
     "U+0AEA", "U+0B6A", "U+0BEA", "U+0C6A", "U+0CEA", "U+0D6A", "U+0DEA",
     "U+0E54", "U+0ED4", "U+0F24", "U+1044", "U+1094", "U+17E4", "U+1814",
     "U+194A", "U+19D4", "U+1A84", "U+1A94", "U+1B54", "U+1BB4", "U+1C44",
     "U+1C54", "U+A624", "U+A8D4", "U+A904", "U+A9D4", "U+A9F4", "U+AA54",
     "U+ABF4", "U+FF14", "U+104A4", "U+10D34", "U+1106A", "U+110F4",
     "U+1113A", "U+111D4", "U+112F4", "U+11454", "U+114D4", "U+11654",
     "U+116C4", "U+11734", "U+118E4", "U+11954", "U+11C54", "U+11D54",
     "U+11DA4", "U+16A64", "U+16AC4", "U+16B54", "U+1D7D2", "U+1D7DC",
     "U+1D7E6", "U+1D7F0", "U+1D7FA", "U+1E144", "U+1E2F4", "U+1E954",
     "U+1FBF4"},
    {"5", "U+0665", "U+06F5", "U+07C5", "U+096B", "U+09EB", "U+0A6B",
     "U+0AEB", "U+0B6B", "U+0BEB", "U+0C6B", "U+0CEB", "U+0D6B", "U+0DEB",
     "U+0E55", "U+0ED5", "U+0F25", "U+1045", "U+1095", "U+17E5", "U+1815",
     "U+194B", "U+19D5", "U+1A85", "U+1A95", "U+1B55", "U+1BB5", "U+1C45",
     "U+1C55", "U+A625", "U+A8D5", "U+A905", "U+A9D5", "U+A9F5", "U+AA55",
     "U+ABF5", "U+FF15", "U+104A5", "U+10D35", "U+1106B", "U+110F5",
     "U+1113B", "U+111D5", "U+112F5", "U+11455", "U+114D5", "U+11655",
     "U+116C5", "U+11735", "U+118E5", "U+11955", "U+11C55", "U+11D55",
     "U+11DA5", "U+16A65", "U+16AC5", "U+16B55", "U+1D7D3", "U+1D7DD",
     "U+1D7E7", "U+1D7F1", "U+1D7FB", "U+1E145", "U+1E2F5", "U+1E955",
     "U+1FBF5"},
    {"6", "U+0666", "U+06F6", "U+07C6", "U+096C", "U+09EC", "U+0A6C",
     "U+0AEC", "U+0B6C", "U+0BEC", "U+0C6C", "U+0CEC", "U+0D6C", "U+0DEC",
     "U+0E56", "U+0ED6", "U+0F26", "U+1046", "U+1096", "U+17E6", "U+1816",
     "U+194C", "U+19D6", "U+1A86", "U+1A96", "U+1B56", "U+1BB6", "U+1C46",
     "U+1C56", "U+A626", "U+A8D6", "U+A906", "U+A9D6", "U+A9F6", "U+AA56",
     "U+ABF6", "U+FF16", "U+104A6", "U+10D36", "U+1106C", "U+110F6",
     "U+1113C", "U+111D6", "U+112F6", "U+11456", "U+114D6", "U+11656",
     "U+116C6", "U+11736", "U+118E6", "U+11956", "U+11C56", "U+11D56",
     "U+11DA6", "U+16A66", "U+16AC6", "U+16B56", "U+1D7D4", "U+1D7DE",
     "U+1D7E8", "U+1D7F2", "U+1D7FC", "U+1E146", "U+1E2F6", "U+1E956",
     "U+1FBF6"},
    {"7", "U+0667", "U+06F7", "U+07C7", "U+096D", "U+09ED", "U+0A6D",
     "U+0AED", "U+0B6D", "U+0BED", "U+0C6D", "U+0CED", "U+0D6D", "U+0DED",
     "U+0E57", "U+0ED7", "U+0F27", "U+1047", "U+1097", "U+17E7", "U+1817",
     "U+194D", "U+19D7", "U+1A87", "U+1A97", "U+1B57", "U+1BB7", "U+1C47",
     "U+1C57", "U+A627", "U+A8D7", "U+A907", "U+A9D7", "U+A9F7", "U+AA57",
     "U+ABF7", "U+FF17", "U+104A7", "U+10D37", "U+1106D", "U+110F7",
     "U+1113D", "U+111D7", "U+112F7", "U+11457", "U+114D7", "U+11657",
     "U+116C7", "U+11737", "U+118E7", "U+11957", "U+11C57", "U+11D57",
     "U+11DA7", "U+16A67", "U+16AC7", "U+16B57", "U+1D7D5", "U+1D7DF",
     "U+1D7E9", "U+1D7F3", "U+1D7FD", "U+1E147", "U+1E2F7", "U+1E957",
     "U+1FBF7"},
    {"8", "U+0668", "U+06F8", "U+07C8", "U+096E", "U+09EE", "U+0A6E",
     "U+0AEE", "U+0B6E", "U+0BEE", "U+0C6E", "U+0CEE", "U+0D6E", "U+0DEE",
     "U+0E58", "U+0ED8", "U+0F28", "U+1048", "U+1098", "U+17E8", "U+1818",
     "U+194E", "U+19D8", "U+1A88", "U+1A98", "U+1B58", "U+1BB8", "U+1C48",
     "U+1C58", "U+A628", "U+A8D8", "U+A908", "U+A9D8", "U+A9F8", "U+AA58",
     "U+ABF8", "U+FF18", "U+104A8", "U+10D38", "U+1106E", "U+110F8",
     "U+1113E", "U+111D8", "U+112F8", "U+11458", "U+114D8", "U+11658",
     "U+116C8", "U+11738", "U+118E8", "U+11958", "U+11C58", "U+11D58",
     "U+11DA8", "U+16A68", "U+16AC8", "U+16B58", "U+1D7D6", "U+1D7E0",
     "U+1D7EA", "U+1D7F4", "U+1D7FE", "U+1E148", "U+1E2F8", "U+1E958",
     "U+1FBF8"},
    {"9", "U+0669", "U+06F9", "U+07C9", "U+096F", "U+09EF", "U+0A6F",
     "U+0AEF", "U+0B6F", "U+0BEF", "U+0C6F", "U+0CEF", "U+0D6F", "U+0DEF",
     "U+0E59", "U+0ED9", "U+0F29", "U+1049", "U+1099", "U+17E9", "U+1819",
     "U+194F", "U+19D9", "U+1A89", "U+1A99", "U+1B59", "U+1BB9", "U+1C49",
     "U+1C59", "U+A629", "U+A8D9", "U+A909", "U+A9D9", "U+A9F9", "U+AA59",
     "U+ABF9", "U+FF19", "U+104A9", "U+10D39", "U+1106F", "U+110F9",
     "U+1113F", "U+111D9", "U+112F9", "U+11459", "U+114D9", "U+11659",
     "U+116C9", "U+11739", "U+118E9", "U+11959", "U+11C59", "U+11D59",
     "U+11DA9", "U+16A69", "U+16AC9", "U+16B59", "U+1D7D7", "U+1D7E1",
     "U+1D7EB", "U+1D7F5", "U+1D7FF", "U+1E149", "U+1E2F9", "U+1E959",
     "U+1FBF9"} >>

Digits == UNION {DigitsOf[i] : i \in 1..10}

DigitVal(c) == (CHOOSE i \in 1..10 : c \in DigitsOf[i]) - 1

DigitChar(d) ==
    CASE d = 0 -> "0" [] d = 1 -> "1" [] d = 2 -> "2" [] d = 3 -> "3"
      [] d = 4 -> "4" [] d = 5 -> "5" [] d = 6 -> "6" [] d = 7 -> "7"
      [] d = 8 -> "8" [] d = 9 -> "9"

\* the characters int() strips from both ends of its argument
Whitespace ==
    {"U+0009", "U+000A", "U+000B", "U+000C", "U+000D", " ", "U+0085",
     "U+00A0", "U+1680", "U+2000", "U+2001", "U+2002", "U+2003", "U+2004",
     "U+2005", "U+2006", "U+2007", "U+2008", "U+2009", "U+200A", "U+2028",
     "U+2029", "U+202F", "U+205F", "U+3000"}

RECURSIVE StripLeft(_)
StripLeft(s) == IF s # <<>> /\ s[1] \in Whitespace THEN StripLeft(Tail(s)) ELSE s

RECURSIVE StripRight(_)
StripRight(s) ==
    IF s # <<>> /\ s[Len(s)] \in Whitespace THEN StripRight(SubSeq(s, 1, Len(s) - 1)) ELSE s

RECURSIVE DigitsToNat(_, _)
DigitsToNat(s, acc) ==
    IF s = <<>> THEN acc ELSE DigitsToNat(Tail(s), 10 * acc + DigitVal(s[1]))

\* int(text): an optional value, None where int() raises ValueError (text
\* holds no "_": it is the piece after the last one)
ParseInt(text) ==
    LET s == StripRight(StripLeft(text))
        body == IF s # <<>> /\ s[1] \in {"-", "+"} THEN Tail(s) ELSE s
    IN IF body = <<>> \/ \E i \in 1..Len(body) : body[i] \notin Digits THEN None
       ELSE IF s[1] = "-" THEN Some(0 - DigitsToNat(body, 0))
       ELSE Some(DigitsToNat(body, 0))

RECURSIVE NatToDigits(_)
NatToDigits(n) ==
    IF n < 10 THEN <<DigitChar(n)>>
    ELSE NatToDigits(n \div 10) \o <<DigitChar(n % 10)>>

RECURSIVE ZeroPad(_, _)
ZeroPad(s, width) == IF Len(s) >= width THEN s ELSE ZeroPad(<<"0">> \o s, width)

\* f"{n:06d}"
Format06d(n) ==
    IF n < 0 THEN <<"-">> \o ZeroPad(NatToDigits(0 - n), 5)
    ELSE ZeroPad(NatToDigits(n), 6)

\* episode_index_from_name: int(path.stem.split("_")[-1]) or None
EpisodeIndexFromName(path) == ParseInt(path[3])

----------------------------------------------------------------------------
(* io/fs_local.py *)

ChunkOrder == <<"000", "001">>
Chunks == {ChunkOrder[i] : i \in 1..Len(ChunkOrder)}
ChunkRank(c) == CHOOSE i \in 1..Len(ChunkOrder) : ChunkOrder[i] = c

FileAt(t, p) == IF p \in DOMAIN t THEN t[p] ELSE None
Exists(t, p) == IsSome(FileAt(t, p))

\* sorted(fs.list_chunks()): the chunk directories under <root>/data
ListChunks(t) == SelectSeq(ChunkOrder, LAMBDA c : \E p \in DOMAIN t : p[1] = c /\ p[2] = "data")

\* the files episode_*.parquet of a chunk directory
ListParquets(t, chunk) ==
    {p \in DOMAIN t : p[1] = chunk /\ p[2] = "data" /\ Exists(t, p)}

VideoPath(chunk, cam, ep_idx) == <<chunk, cam, Format06d(ep_idx)>>

\* cam_dir.glob("episode_*.mp4")
ListVideos(t, chunk, cam) ==
    {p \in DOMAIN t : p[1] = chunk /\ p[2] = cam /\ Exists(t, p)}

\* the printable ASCII characters in the order of their code points, from 32
Ascii ==
    <<" ", "!", "\"", "#", "$", "%", "&", "'", "(", ")", "*", "+", ",", "-", ".", "/",
      "0", "1", "2", "3", "4", "5", "6", "7", "8", "9", ":", ";", "<", "=", ">", "?",
      "@", "A", "B", "C", "D", "E", "F", "G", "H", "I", "J", "K", "L", "M", "N", "O",
      "P", "Q", "R", "S", "T", "U", "V", "W", "X", "Y", "Z", "[", "\\", "]", "^", "_",
      "U+0060", "a", "b", "c", "d", "e", "f", "g", "h", "i", "j", "k", "l", "m", "n", "o",
      "p", "q", "r", "s", "t", "u", "v", "w", "x", "y", "z", "{", "|", "}", "~">>

\* the code points of the other characters of the file names: the decimal
\* digits and the whitespace of int()
CodePoints ==
    {<<"U+0009", 9>>, <<"U+000A", 10>>, <<"U+000B", 11>>,
     <<"U+000C", 12>>, <<"U+000D", 13>>, <<"U+0085", 133>>,
     <<"U+00A0", 160>>, <<"U+0660", 1632>>, <<"U+0661", 1633>>,
     <<"U+0662", 1634>>, <<"U+0663", 1635>>, <<"U+0664", 1636>>,
     <<"U+0665", 1637>>, <<"U+0666", 1638>>, <<"U+0667", 1639>>,
     <<"U+0668", 1640>>, <<"U+0669", 1641>>, <<"U+06F0", 1776>>,
     <<"U+06F1", 1777>>, <<"U+06F2", 1778>>, <<"U+06F3", 1779>>,
     <<"U+06F4", 1780>>, <<"U+06F5", 1781>>, <<"U+06F6", 1782>>,
     <<"U+06F7", 1783>>, <<"U+06F8", 1784>>, <<"U+06F9", 1785>>,
     <<"U+07C0", 1984>>, <<"U+07C1", 1985>>, <<"U+07C2", 1986>>,
     <<"U+07C3", 1987>>, <<"U+07C4", 1988>>, <<"U+07C5", 1989>>,
     <<"U+07C6", 1990>>, <<"U+07C7", 1991>>, <<"U+07C8", 1992>>,
     <<"U+07C9", 1993>>, <<"U+0966", 2406>>, <<"U+0967", 2407>>,
     <<"U+0968", 2408>>, <<"U+0969", 2409>>, <<"U+096A", 2410>>,
     <<"U+096B", 2411>>, <<"U+096C", 2412>>, <<"U+096D", 2413>>,
     <<"U+096E", 2414>>, <<"U+096F", 2415>>, <<"U+09E6", 2534>>,
     <<"U+09E7", 2535>>, <<"U+09E8", 2536>>, <<"U+09E9", 2537>>,
     <<"U+09EA", 2538>>, <<"U+09EB", 2539>>, <<"U+09EC", 2540>>,
     <<"U+09ED", 2541>>, <<"U+09EE", 2542>>, <<"U+09EF", 2543>>,
     <<"U+0A66", 2662>>, <<"U+0A67", 2663>>, <<"U+0A68", 2664>>,
     <<"U+0A69", 2665>>, <<"U+0A6A", 2666>>, <<"U+0A6B", 2667>>,
     <<"U+0A6C", 2668>>, <<"U+0A6D", 2669>>, <<"U+0A6E", 2670>>,
     <<"U+0A6F", 2671>>, <<"U+0AE6", 2790>>, <<"U+0AE7", 2791>>,
     <<"U+0AE8", 2792>>, <<"U+0AE9", 2793>>, <<"U+0AEA", 2794>>,
     <<"U+0AEB", 2795>>, <<"U+0AEC", 2796>>, <<"U+0AED", 2797>>,
     <<"U+0AEE", 2798>>, <<"U+0AEF", 2799>>, <<"U+0B66", 2918>>,
     <<"U+0B67", 2919>>, <<"U+0B68", 2920>>, <<"U+0B69", 2921>>,
     <<"U+0B6A", 2922>>, <<"U+0B6B", 2923>>, <<"U+0B6C", 2924>>,
     <<"U+0B6D", 2925>>, <<"U+0B6E", 2926>>, <<"U+0B6F", 2927>>,
     <<"U+0BE6", 3046>>, <<"U+0BE7", 3047>>, <<"U+0BE8", 3048>>,
     <<"U+0BE9", 3049>>, <<"U+0BEA", 3050>>, <<"U+0BEB", 3051>>,
     <<"U+0BEC", 3052>>, <<"U+0BED", 3053>>, <<"U+0BEE", 3054>>,
     <<"U+0BEF", 3055>>, <<"U+0C66", 3174>>, <<"U+0C67", 3175>>,
     <<"U+0C68", 3176>>, <<"U+0C69", 3177>>, <<"U+0C6A", 3178>>,
     <<"U+0C6B", 3179>>, <<"U+0C6C", 3180>>, <<"U+0C6D", 3181>>,
     <<"U+0C6E", 3182>>, <<"U+0C6F", 3183>>, <<"U+0CE6", 3302>>,
     <<"U+0CE7", 3303>>, <<"U+0CE8", 3304>>, <<"U+0CE9", 3305>>,
     <<"U+0CEA", 3306>>, <<"U+0CEB", 3307>>, <<"U+0CEC", 3308>>,
     <<"U+0CED", 3309>>, <<"U+0CEE", 3310>>, <<"U+0CEF", 3311>>,
     <<"U+0D66", 3430>>, <<"U+0D67", 3431>>, <<"U+0D68", 3432>>,
     <<"U+0D69", 3433>>, <<"U+0D6A", 3434>>, <<"U+0D6B", 3435>>,
     <<"U+0D6C", 3436>>, <<"U+0D6D", 3437>>, <<"U+0D6E", 3438>>,
     <<"U+0D6F", 3439>>, <<"U+0DE6", 3558>>, <<"U+0DE7", 3559>>,
     <<"U+0DE8", 3560>>, <<"U+0DE9", 3561>>, <<"U+0DEA", 3562>>,
     <<"U+0DEB", 3563>>, <<"U+0DEC", 3564>>, <<"U+0DED", 3565>>,
     <<"U+0DEE", 3566>>, <<"U+0DEF", 3567>>, <<"U+0E50", 3664>>,
     <<"U+0E51", 3665>>, <<"U+0E52", 3666>>, <<"U+0E53", 3667>>,
     <<"U+0E54", 3668>>, <<"U+0E55", 3669>>, <<"U+0E56", 3670>>,
     <<"U+0E57", 3671>>, <<"U+0E58", 3672>>, <<"U+0E59", 3673>>,
     <<"U+0ED0", 3792>>, <<"U+0ED1", 3793>>, <<"U+0ED2", 3794>>,
     <<"U+0ED3", 3795>>, <<"U+0ED4", 3796>>, <<"U+0ED5", 3797>>,
     <<"U+0ED6", 3798>>, <<"U+0ED7", 3799>>, <<"U+0ED8", 3800>>,
     <<"U+0ED9", 3801>>, <<"U+0F20", 3872>>, <<"U+0F21", 3873>>,
     <<"U+0F22", 3874>>, <<"U+0F23", 3875>>, <<"U+0F24", 3876>>,
     <<"U+0F25", 3877>>, <<"U+0F26", 3878>>, <<"U+0F27", 3879>>,
     <<"U+0F28", 3880>>, <<"U+0F29", 3881>>, <<"U+1040", 4160>>,
     <<"U+1041", 4161>>, <<"U+1042", 4162>>, <<"U+1043", 4163>>,
     <<"U+1044", 4164>>, <<"U+1045", 4165>>, <<"U+1046", 4166>>,
     <<"U+1047", 4167>>, <<"U+1048", 4168>>, <<"U+1049", 4169>>,
     <<"U+1090", 4240>>, <<"U+1091", 4241>>, <<"U+1092", 4242>>,
     <<"U+1093", 4243>>, <<"U+1094", 4244>>, <<"U+1095", 4245>>,
     <<"U+1096", 4246>>, <<"U+1097", 4247>>, <<"U+1098", 4248>>,
     <<"U+1099", 4249>>, <<"U+1680", 5760>>, <<"U+17E0", 6112>>,
     <<"U+17E1", 6113>>, <<"U+17E2", 6114>>, <<"U+17E3", 6115>>,
     <<"U+17E4", 6116>>, <<"U+17E5", 6117>>, <<"U+17E6", 6118>>,
     <<"U+17E7", 6119>>, <<"U+17E8", 6120>>, <<"U+17E9", 6121>>,
     <<"U+1810", 6160>>, <<"U+1811", 6161>>, <<"U+1812", 6162>>,
     <<"U+1813", 6163>>, <<"U+1814", 6164>>, <<"U+1815", 6165>>,
     <<"U+1816", 6166>>, <<"U+1817", 6167>>, <<"U+1818", 6168>>,
     <<"U+1819", 6169>>, <<"U+1946", 6470>>, <<"U+1947", 6471>>,
     <<"U+1948", 6472>>, <<"U+1949", 6473>>, <<"U+194A", 6474>>,
     <<"U+194B", 6475>>, <<"U+194C", 6476>>, <<"U+194D", 6477>>,
     <<"U+194E", 6478>>, <<"U+194F", 6479>>, <<"U+19D0", 6608>>,
     <<"U+19D1", 6609>>, <<"U+19D2", 6610>>, <<"U+19D3", 6611>>,
     <<"U+19D4", 6612>>, <<"U+19D5", 6613>>, <<"U+19D6", 6614>>,
     <<"U+19D7", 6615>>, <<"U+19D8", 6616>>, <<"U+19D9", 6617>>,
     <<"U+1A80", 6784>>, <<"U+1A81", 6785>>, <<"U+1A82", 6786>>,
     <<"U+1A83", 6787>>, <<"U+1A84", 6788>>, <<"U+1A85", 6789>>,
     <<"U+1A86", 6790>>, <<"U+1A87", 6791>>, <<"U+1A88", 6792>>,
     <<"U+1A89", 6793>>, <<"U+1A90", 6800>>, <<"U+1A91", 6801>>,
     <<"U+1A92", 6802>>, <<"U+1A93", 6803>>, <<"U+1A94", 6804>>,
     <<"U+1A95", 6805>>, <<"U+1A96", 6806>>, <<"U+1A97", 6807>>,
     <<"U+1A98", 6808>>, <<"U+1A99", 6809>>, <<"U+1B50", 6992>>,
     <<"U+1B51", 6993>>, <<"U+1B52", 6994>>, <<"U+1B53", 6995>>,
     <<"U+1B54", 6996>>, <<"U+1B55", 6997>>, <<"U+1B56", 6998>>,
     <<"U+1B57", 6999>>, <<"U+1B58", 7000>>, <<"U+1B59", 7001>>,
     <<"U+1BB0", 7088>>, <<"U+1BB1", 7089>>, <<"U+1BB2", 7090>>,
     <<"U+1BB3", 7091>>, <<"U+1BB4", 7092>>, <<"U+1BB5", 7093>>,
     <<"U+1BB6", 7094>>, <<"U+1BB7", 7095>>, <<"U+1BB8", 7096>>,
     <<"U+1BB9", 7097>>, <<"U+1C40", 7232>>, <<"U+1C41", 7233>>,
     <<"U+1C42", 7234>>, <<"U+1C43", 7235>>, <<"U+1C44", 7236>>,
     <<"U+1C45", 7237>>, <<"U+1C46", 7238>>, <<"U+1C47", 7239>>,
     <<"U+1C48", 7240>>, <<"U+1C49", 7241>>, <<"U+1C50", 7248>>,
     <<"U+1C51", 7249>>, <<"U+1C52", 7250>>, <<"U+1C53", 7251>>,
     <<"U+1C54", 7252>>, <<"U+1C55", 7253>>, <<"U+1C56", 7254>>,
     <<"U+1C57", 7255>>, <<"U+1C58", 7256>>, <<"U+1C59", 7257>>,
     <<"U+2000", 8192>>, <<"U+2001", 8193>>, <<"U+2002", 8194>>,
     <<"U+2003", 8195>>, <<"U+2004", 8196>>, <<"U+2005", 8197>>,
     <<"U+2006", 8198>>, <<"U+2007", 8199>>, <<"U+2008", 8200>>,
     <<"U+2009", 8201>>, <<"U+200A", 8202>>, <<"U+2028", 8232>>,
     <<"U+2029", 8233>>, <<"U+202F", 8239>>, <<"U+205F", 8287>>,
     <<"U+3000", 12288>>, <<"U+A620", 42528>>, <<"U+A621", 42529>>,
     <<"U+A622", 42530>>, <<"U+A623", 42531>>, <<"U+A624", 42532>>,
     <<"U+A625", 42533>>, <<"U+A626", 42534>>, <<"U+A627", 42535>>,
     <<"U+A628", 42536>>, <<"U+A629", 42537>>, <<"U+A8D0", 43216>>,
     <<"U+A8D1", 43217>>, <<"U+A8D2", 43218>>, <<"U+A8D3", 43219>>,
     <<"U+A8D4", 43220>>, <<"U+A8D5", 43221>>, <<"U+A8D6", 43222>>,
     <<"U+A8D7", 43223>>, <<"U+A8D8", 43224>>, <<"U+A8D9", 43225>>,
     <<"U+A900", 43264>>, <<"U+A901", 43265>>, <<"U+A902", 43266>>,
     <<"U+A903", 43267>>, <<"U+A904", 43268>>, <<"U+A905", 43269>>,
     <<"U+A906", 43270>>, <<"U+A907", 43271>>, <<"U+A908", 43272>>,
     <<"U+A909", 43273>>, <<"U+A9D0", 43472>>, <<"U+A9D1", 43473>>,
     <<"U+A9D2", 43474>>, <<"U+A9D3", 43475>>, <<"U+A9D4", 43476>>,
     <<"U+A9D5", 43477>>, <<"U+A9D6", 43478>>, <<"U+A9D7", 43479>>,
     <<"U+A9D8", 43480>>, <<"U+A9D9", 43481>>, <<"U+A9F0", 43504>>,
     <<"U+A9F1", 43505>>, <<"U+A9F2", 43506>>, <<"U+A9F3", 43507>>,
     <<"U+A9F4", 43508>>, <<"U+A9F5", 43509>>, <<"U+A9F6", 43510>>,
     <<"U+A9F7", 43511>>, <<"U+A9F8", 43512>>, <<"U+A9F9", 43513>>,
     <<"U+AA50", 43600>>, <<"U+AA51", 43601>>, <<"U+AA52", 43602>>,
     <<"U+AA53", 43603>>, <<"U+AA54", 43604>>, <<"U+AA55", 43605>>,
     <<"U+AA56", 43606>>, <<"U+AA57", 43607>>, <<"U+AA58", 43608>>,
     <<"U+AA59", 43609>>, <<"U+ABF0", 44016>>, <<"U+ABF1", 44017>>,
     <<"U+ABF2", 44018>>, <<"U+ABF3", 44019>>, <<"U+ABF4", 44020>>,
     <<"U+ABF5", 44021>>, <<"U+ABF6", 44022>>, <<"U+ABF7", 44023>>,
     <<"U+ABF8", 44024>>, <<"U+ABF9", 44025>>, <<"U+FF10", 65296>>,
     <<"U+FF11", 65297>>, <<"U+FF12", 65298>>, <<"U+FF13", 65299>>,
     <<"U+FF14", 65300>>, <<"U+FF15", 65301>>, <<"U+FF16", 65302>>,
     <<"U+FF17", 65303>>, <<"U+FF18", 65304>>, <<"U+FF19", 65305>>,
     <<"U+104A0", 66720>>, <<"U+104A1", 66721>>, <<"U+104A2", 66722>>,
     <<"U+104A3", 66723>>, <<"U+104A4", 66724>>, <<"U+104A5", 66725>>,
     <<"U+104A6", 66726>>, <<"U+104A7", 66727>>, <<"U+104A8", 66728>>,
     <<"U+104A9", 66729>>, <<"U+10D30", 68912>>, <<"U+10D31", 68913>>,
     <<"U+10D32", 68914>>, <<"U+10D33", 68915>>, <<"U+10D34", 68916>>,
     <<"U+10D35", 68917>>, <<"U+10D36", 68918>>, <<"U+10D37", 68919>>,
     <<"U+10D38", 68920>>, <<"U+10D39", 68921>>, <<"U+11066", 69734>>,
     <<"U+11067", 69735>>, <<"U+11068", 69736>>, <<"U+11069", 69737>>,
     <<"U+1106A", 69738>>, <<"U+1106B", 69739>>, <<"U+1106C", 69740>>,
     <<"U+1106D", 69741>>, <<"U+1106E", 69742>>, <<"U+1106F", 69743>>,
     <<"U+110F0", 69872>>, <<"U+110F1", 69873>>, <<"U+110F2", 69874>>,
     <<"U+110F3", 69875>>, <<"U+110F4", 69876>>, <<"U+110F5", 69877>>,
     <<"U+110F6", 69878>>, <<"U+110F7", 69879>>, <<"U+110F8", 69880>>,
     <<"U+110F9", 69881>>, <<"U+11136", 69942>>, <<"U+11137", 69943>>,
     <<"U+11138", 69944>>, <<"U+11139", 69945>>, <<"U+1113A", 69946>>,
     <<"U+1113B", 69947>>, <<"U+1113C", 69948>>, <<"U+1113D", 69949>>,
     <<"U+1113E", 69950>>, <<"U+1113F", 69951>>, <<"U+111D0", 70096>>,
     <<"U+111D1", 70097>>, <<"U+111D2", 70098>>, <<"U+111D3", 70099>>,
     <<"U+111D4", 70100>>, <<"U+111D5", 70101>>, <<"U+111D6", 70102>>,
     <<"U+111D7", 70103>>, <<"U+111D8", 70104>>, <<"U+111D9", 70105>>,
     <<"U+112F0", 70384>>, <<"U+112F1", 70385>>, <<"U+112F2", 70386>>,
     <<"U+112F3", 70387>>, <<"U+112F4", 70388>>, <<"U+112F5", 70389>>,
     <<"U+112F6", 70390>>, <<"U+112F7", 70391>>, <<"U+112F8", 70392>>,
     <<"U+112F9", 70393>>, <<"U+11450", 70736>>, <<"U+11451", 70737>>,
     <<"U+11452", 70738>>, <<"U+11453", 70739>>, <<"U+11454", 70740>>,
     <<"U+11455", 70741>>, <<"U+11456", 70742>>, <<"U+11457", 70743>>,
     <<"U+11458", 70744>>, <<"U+11459", 70745>>, <<"U+114D0", 70864>>,
     <<"U+114D1", 70865>>, <<"U+114D2", 70866>>, <<"U+114D3", 70867>>,
     <<"U+114D4", 70868>>, <<"U+114D5", 70869>>, <<"U+114D6", 70870>>,
     <<"U+114D7", 70871>>, <<"U+114D8", 70872>>, <<"U+114D9", 70873>>,
     <<"U+11650", 71248>>, <<"U+11651", 71249>>, <<"U+11652", 71250>>,
     <<"U+11653", 71251>>, <<"U+11654", 71252>>, <<"U+11655", 71253>>,
     <<"U+11656", 71254>>, <<"U+11657", 71255>>, <<"U+11658", 71256>>,
     <<"U+11659", 71257>>, <<"U+116C0", 71360>>, <<"U+116C1", 71361>>,
     <<"U+116C2", 71362>>, <<"U+116C3", 71363>>, <<"U+116C4", 71364>>,
     <<"U+116C5", 71365>>, <<"U+116C6", 71366>>, <<"U+116C7", 71367>>,
     <<"U+116C8", 71368>>, <<"U+116C9", 71369>>, <<"U+11730", 71472>>,
     <<"U+11731", 71473>>, <<"U+11732", 71474>>, <<"U+11733", 71475>>,
     <<"U+11734", 71476>>, <<"U+11735", 71477>>, <<"U+11736", 71478>>,
     <<"U+11737", 71479>>, <<"U+11738", 71480>>, <<"U+11739", 71481>>,
     <<"U+118E0", 71904>>, <<"U+118E1", 71905>>, <<"U+118E2", 71906>>,
     <<"U+118E3", 71907>>, <<"U+118E4", 71908>>, <<"U+118E5", 71909>>,
     <<"U+118E6", 71910>>, <<"U+118E7", 71911>>, <<"U+118E8", 71912>>,
     <<"U+118E9", 71913>>, <<"U+11950", 72016>>, <<"U+11951", 72017>>,
     <<"U+11952", 72018>>, <<"U+11953", 72019>>, <<"U+11954", 72020>>,
     <<"U+11955", 72021>>, <<"U+11956", 72022>>, <<"U+11957", 72023>>,
     <<"U+11958", 72024>>, <<"U+11959", 72025>>, <<"U+11C50", 72784>>,
     <<"U+11C51", 72785>>, <<"U+11C52", 72786>>, <<"U+11C53", 72787>>,
     <<"U+11C54", 72788>>, <<"U+11C55", 72789>>, <<"U+11C56", 72790>>,
     <<"U+11C57", 72791>>, <<"U+11C58", 72792>>, <<"U+11C59", 72793>>,
     <<"U+11D50", 73040>>, <<"U+11D51", 73041>>, <<"U+11D52", 73042>>,
     <<"U+11D53", 73043>>, <<"U+11D54", 73044>>, <<"U+11D55", 73045>>,
     <<"U+11D56", 73046>>, <<"U+11D57", 73047>>, <<"U+11D58", 73048>>,
     <<"U+11D59", 73049>>, <<"U+11DA0", 73120>>, <<"U+11DA1", 73121>>,
     <<"U+11DA2", 73122>>, <<"U+11DA3", 73123>>, <<"U+11DA4", 73124>>,
     <<"U+11DA5", 73125>>, <<"U+11DA6", 73126>>, <<"U+11DA7", 73127>>,
     <<"U+11DA8", 73128>>, <<"U+11DA9", 73129>>, <<"U+16A60", 92768>>,
     <<"U+16A61", 92769>>, <<"U+16A62", 92770>>, <<"U+16A63", 92771>>,
     <<"U+16A64", 92772>>, <<"U+16A65", 92773>>, <<"U+16A66", 92774>>,
     <<"U+16A67", 92775>>, <<"U+16A68", 92776>>, <<"U+16A69", 92777>>,
     <<"U+16AC0", 92864>>, <<"U+16AC1", 92865>>, <<"U+16AC2", 92866>>,
     <<"U+16AC3", 92867>>, <<"U+16AC4", 92868>>, <<"U+16AC5", 92869>>,
     <<"U+16AC6", 92870>>, <<"U+16AC7", 92871>>, <<"U+16AC8", 92872>>,
     <<"U+16AC9", 92873>>, <<"U+16B50", 93008>>, <<"U+16B51", 93009>>,
     <<"U+16B52", 93010>>, <<"U+16B53", 93011>>, <<"U+16B54", 93012>>,
     <<"U+16B55", 93013>>, <<"U+16B56", 93014>>, <<"U+16B57", 93015>>,
     <<"U+16B58", 93016>>, <<"U+16B59", 93017>>, <<"U+1D7CE", 120782>>,
     <<"U+1D7CF", 120783>>, <<"U+1D7D0", 120784>>, <<"U+1D7D1", 120785>>,
     <<"U+1D7D2", 120786>>, <<"U+1D7D3", 120787>>, <<"U+1D7D4", 120788>>,
     <<"U+1D7D5", 120789>>, <<"U+1D7D6", 120790>>, <<"U+1D7D7", 120791>>,
     <<"U+1D7D8", 120792>>, <<"U+1D7D9", 120793>>, <<"U+1D7DA", 120794>>,
     <<"U+1D7DB", 120795>>, <<"U+1D7DC", 120796>>, <<"U+1D7DD", 120797>>,
     <<"U+1D7DE", 120798>>, <<"U+1D7DF", 120799>>, <<"U+1D7E0", 120800>>,
     <<"U+1D7E1", 120801>>, <<"U+1D7E2", 120802>>, <<"U+1D7E3", 120803>>,
     <<"U+1D7E4", 120804>>, <<"U+1D7E5", 120805>>, <<"U+1D7E6", 120806>>,
     <<"U+1D7E7", 120807>>, <<"U+1D7E8", 120808>>, <<"U+1D7E9", 120809>>,
     <<"U+1D7EA", 120810>>, <<"U+1D7EB", 120811>>, <<"U+1D7EC", 120812>>,
     <<"U+1D7ED", 120813>>, <<"U+1D7EE", 120814>>, <<"U+1D7EF", 120815>>,
     <<"U+1D7F0", 120816>>, <<"U+1D7F1", 120817>>, <<"U+1D7F2", 120818>>,
     <<"U+1D7F3", 120819>>, <<"U+1D7F4", 120820>>, <<"U+1D7F5", 120821>>,
     <<"U+1D7F6", 120822>>, <<"U+1D7F7", 120823>>, <<"U+1D7F8", 120824>>,
     <<"U+1D7F9", 120825>>, <<"U+1D7FA", 120826>>, <<"U+1D7FB", 120827>>,
     <<"U+1D7FC", 120828>>, <<"U+1D7FD", 120829>>, <<"U+1D7FE", 120830>>,
     <<"U+1D7FF", 120831>>, <<"U+1E140", 123200>>, <<"U+1E141", 123201>>,
     <<"U+1E142", 123202>>, <<"U+1E143", 123203>>, <<"U+1E144", 123204>>,
     <<"U+1E145", 123205>>, <<"U+1E146", 123206>>, <<"U+1E147", 123207>>,
     <<"U+1E148", 123208>>, <<"U+1E149", 123209>>, <<"U+1E2F0", 123632>>,
     <<"U+1E2F1", 123633>>, <<"U+1E2F2", 123634>>, <<"U+1E2F3", 123635>>,
     <<"U+1E2F4", 123636>>, <<"U+1E2F5", 123637>>, <<"U+1E2F6", 123638>>,
     <<"U+1E2F7", 123639>>, <<"U+1E2F8", 123640>>, <<"U+1E2F9", 123641>>,
     <<"U+1E950", 125264>>, <<"U+1E951", 125265>>, <<"U+1E952", 125266>>,
     <<"U+1E953", 125267>>, <<"U+1E954", 125268>>, <<"U+1E955", 125269>>,
     <<"U+1E956", 125270>>, <<"U+1E957", 125271>>, <<"U+1E958", 125272>>,
     <<"U+1E959", 125273>>, <<"U+1FBF0", 130032>>, <<"U+1FBF1", 130033>>,
     <<"U+1FBF2", 130034>>, <<"U+1FBF3", 130035>>, <<"U+1FBF4", 130036>>,
     <<"U+1FBF5", 130037>>, <<"U+1FBF6", 130038>>, <<"U+1FBF7", 130039>>,
     <<"U+1FBF8", 130040>>, <<"U+1FBF9", 130041>>}

\* ord(c)
CharCode(c) ==
    IF \E i \in 1..Len(Ascii) : Ascii[i] = c
    THEN 31 + CHOOSE i \in 1..Len(Ascii) : Ascii[i] = c
    ELSE (CHOOSE e \in CodePoints : e[1] = c)[2]

\* a < b for two strings, as Python compares str
RECURSIVE StrLess(_, _)
StrLess(a, b) ==
    IF b = <<>> THEN FALSE
    ELSE IF a = <<>> THEN TRUE
    ELSE IF a[1] = b[1] THEN StrLess(Tail(a), Tail(b))
    ELSE CharCode(a[1]) < CharCode(b[1])

\* the characters that follow "episode_" in the name of a file: its suffix
\* and its extension, ".parquet" under data and ".mp4" under a camera
NameTail(p) ==
    p[3] \o (IF p[2] = "data" THEN <<".", "p", "a", "r", "q", "u", "e", "t">>
             ELSE <<".", "m", "p", "4">>)

\* the order of sorted() on the files of one directory: Path compares the
\* names as strings, and the names start with the same "episode_"
NameLess(p, q) == StrLess(NameTail(p), NameTail(q))

\* sorted(...) of files of one directory
RECURSIVE SortedNames(_)
SortedNames(S) ==
    IF S = {} THEN <<>>
    ELSE LET x == CHOOSE y \in S : \A z \in S \ {y} : NameLess(y, z)
         IN <<x>> \o SortedNames(S \ {x})

----------------------------------------------------------------------------
(* What a call sees of the files.  The environment may change files while a
   call runs.  A timeline h is the sequence of the trees during the call, the
   first one at its start, each of the others after one more change.  A view
   [h, m] of a piece of code gives, for its i-th access to the file system in
   program order, the index m[i] in h of the tree it finds. *)

At(v, i) == v.h[v.m[i]]

\* the moments from lo on at which an access to the paths P finds something
\* it would not find earlier: lo, and every moment right after a change of
\* one of P
Moments(h, lo, P) ==
    {lo} \cup {m \in (lo + 1)..Len(h) : \E p \in P : FileAt(h[m - 1], p) # FileAt(h[m], p)}

\* the moments of successive accesses, pts[i] being the paths the i-th
\* access looks at; an access never finds an older tree than the one before
RECURSIVE MomentVectors(_, _, _)
MomentVectors(h, lo, pts) ==
    IF pts = <<>> THEN {<<>>}
    ELSE IF Len(pts) = 1 THEN {<<m>> : m \in Moments(h, lo, pts[1])}
    ELSE LET mid == Len(pts) \div 2 IN
         UNION {{a \o b : b \in MomentVectors(h, a[mid], SubSeq(pts, mid + 1, Len(pts)))} :
                    a \in MomentVectors(h, lo, SubSeq(pts, 1, mid))}

\* the moment of the last of the accesses m, which started at lo
End(m, lo) == IF m = <<>> THEN lo ELSE m[Len(m)]

----------------------------------------------------------------------------
(* steps/discover_refactored.py: fingerprint_episode *)

\* The accesses of fingerprint_episode to the file system, in program order,
\* r being the numbers of read() calls made for pq, v_front and v_wrist:
\*   1-9   lines 49-52  exists(), stat(), stat() for pq, v_front, v_wrist
\*   then  line 55      stat(), open() of pq and the r[1] read() calls
\*   then  line 56      exists(), stat(), open() of v_front, r[2] read() calls
\*   then  line 57      exists(), stat(), open() of v_wrist, r[3] read() calls
\*   then  line 64      exists() of v_front, of v_wrist
TaskPoints(pq, r) ==
    LET ix == EpisodeIndexFromName(pq) IN
    IF IsNone(ix) THEN <<>>
    ELSE LET f == {VideoPath(pq[1], CAMERAS[1], Get(ix))}
             w == {VideoPath(pq[1], CAMERAS[2], Get(ix))}
         IN <<{pq}, {pq}, {pq}, f, f, f, w, w, w>>
            \o <<{pq}, {pq}>> \o [j \in 1..r[1] |-> {pq}]
            \o <<f, f, f>> \o [j \in 1..r[2] |-> f]
            \o <<w, w, w>> \o [j \in 1..r[3] |-> w]
            \o <<f, w>>

\* the places of the accesses in a view of a task: stat() of pq, exists()
\* of v_front, exists() of v_wrist inside the try block, the two exists()
\* of line 64
StatPq == 10
ExistsFront(v) == 12 + v.r[1]
ExistsWrist(v) == ExistsFront(v) + 3 + v.r[2]
FinalExists(v) == ExistsWrist(v) + 3 + v.r[3]

\* the largest number of read() calls quick_file_fingerprint makes for the
\* path p on the timeline h: two for the samples (lines 31, 34); with
\* full_hash one per ReadSize bytes, one more that returns nothing, and one
\* more for every change that lengthens the file after a short read
ReadCount(h, p, full_hash) ==
    IF ~full_hash THEN 2
    ELSE LET sizes == {FileSize(Get(FileAt(h[i], p))) : i \in {j \in 1..Len(h) : Exists(h[j], p)}}
             most == IF sizes = {} THEN 0 ELSE CHOOSE n \in sizes : \A k \in sizes : k <= n
         IN ((most + ReadSize - 1) \div ReadSize) + Len(h)

ReadCounts(h, pq, full_hash) ==
    LET ix == EpisodeIndexFromName(pq) IN
    IF IsNone(ix) THEN <<0, 0, 0>>
    ELSE <<ReadCount(h, pq, full_hash),
           ReadCount(h, VideoPath(pq[1], CAMERAS[1], Get(ix)), full_hash),
           ReadCount(h, VideoPath(pq[1], CAMERAS[2], Get(ix)), full_hash)>>

\* the content a read() at moment m finds in the file of path p opened at
\* moment lo: the content the path has at m when the file was rewritten in
\* place, and the content it had last when the path is gone since (the
\* open file outlives its name)
RECURSIVE HeldData(_, _, _, _)
HeldData(h, p, lo, m) ==
    IF m <= lo \/ \A j \in lo..m : Exists(h[j], p) THEN Get(FileAt(h[m], p)).data
    ELSE HeldData(h, p, lo, m - 1)

\* what the n read() calls after the open() at access io find (a file
\* replaced by another one under the same name is read as if every read()
\* had come before the replacement)
ReadsAt(v, io, n, p) ==
    [j \in 1..n |-> HeldData(v.h, p, v.m[io], v.m[io + j])]

\* for p in (pq, v_front, v_wrist): if p.exists() and not
\* stable_sleep_check(p): pending = True; break -- from the k-th path on:
\* "pending", "stable", or "raise" when exists() or stat() raises
RECURSIVE PendingLoopFrom(_, _, _)
PendingLoopFrom(v, paths, k) ==
    IF k > Len(paths) THEN "stable"
    ELSE LET e == FileAt(At(v, 3 * k - 2), paths[k])
             st1 == FileAt(At(v, 3 * k - 1), paths[k])
             st2 == FileAt(At(v, 3 * k), paths[k])
         IN IF StatRaises(e) THEN "raise"
            ELSE IF IsNone(e) THEN PendingLoopFrom(v, paths, k + 1)
            ELSE IF StableRaises(st1, st2) THEN "raise"
            ELSE IF ~StableSleepCheck(st1, st2) THEN "pending"
            ELSE PendingLoopFrom(v, paths, k + 1)

PendingLoop(v, pq, v_front, v_wrist) == PendingLoopFrom(v, <<pq, v_front, v_wrist>>, 1)

\* the exception a video raises inside the try block: exists() at access i,
\* then quick_file_fingerprint at accesses i + 1 and i + 2
VideoError(v, i, p) ==
    LET e == FileAt(At(v, i), p) IN
    IF StatRaises(e) THEN Some("PermissionError")
    ELSE IF IsNone(e) THEN None
    ELSE QuickError(FileAt(At(v, i + 1), p), FileAt(At(v, i + 2), p))

\* the first exception inside the try block (lines 54-59), None when it
\* runs to its end
PartsRaise(v, pq, v_front, v_wrist) ==
    LET e_pq == QuickError(FileAt(At(v, StatPq), pq), FileAt(At(v, StatPq + 1), pq)) IN
    IF IsSome(e_pq) THEN e_pq
    ELSE IF IsSome(VideoError(v, ExistsFront(v), v_front))
    THEN VideoError(v, ExistsFront(v), v_front)
    ELSE VideoError(v, ExistsWrist(v), v_wrist)

\* quick_file_fingerprint of path p, its stat() at access i, its open() at
\* access i + 1, its n read() calls at the accesses after that
PartAt(v, i, n, p, full_hash) ==
    QuickFileFingerprint(Get(FileAt(At(v, i), p)), ReadsAt(v, i + 1, n, p),
                         SAMPLE_BYTES, full_hash)

\* a fingerprint of the trajectory file alone
EpisodePartsParquetOnly(v, pq, v_front, v_wrist, full_hash) ==
    [n \in {"parquet"} |-> PartAt(v, StatPq, v.r[1], pq, full_hash)]

\* lines 55-57, when nothing raises
EpisodeParts(v, pq, v_front, v_wrist, full_hash) ==
    LET names == {"parquet"}
                 \cup (IF Exists(At(v, ExistsFront(v)), v_front) THEN {CAMERAS[1]} ELSE {})
                 \cup (IF Exists(At(v, ExistsWrist(v)), v_wrist) THEN {CAMERAS[2]} ELSE {})
    IN [n \in names |->
           IF n = "parquet" THEN PartAt(v, StatPq, v.r[1], pq, full_hash)
           ELSE IF n = CAMERAS[1] THEN PartAt(v, ExistsFront(v) + 1, v.r[2], v_front, full_hash)
           ELSE PartAt(v, ExistsWrist(v) + 1, v.r[3], v_wrist, full_hash)]

RECURSIVE SumSizes(_, _)
SumSizes(parts, names) ==
    IF names = {} THEN 0
    ELSE LET n == CHOOSE x \in names : TRUE IN parts[n].size + SumSizes(parts, names \ {n})

\* status = PENDING if pending else NEW; a missing side turns NEW into MISSING_SIDE
EpisodeStatus(pending, exists_front, exists_wrist) ==
    IF pending THEN "PENDING"
    ELSE IF ~exists_front \/ ~exists_wrist THEN "MISSING_SIDE"
    ELSE "NEW"

\* Path.exists() and Path.stat() outside the try block (lines 49-52, 64)
\* raise PermissionError for a file that cannot be stat'ed: the exception
\* escapes the task
TaskRaises(v, chunk, pq) ==
    LET ix == EpisodeIndexFromName(pq) IN
    /\ IsSome(ix)
    /\ LET v_front == VideoPath(chunk, CAMERAS[1], Get(ix))
           v_wrist == VideoPath(chunk, CAMERAS[2], Get(ix))
       IN \/ PendingLoop(v, pq, v_front, v_wrist) = "raise"
          \/ StatRaises(FileAt(At(v, FinalExists(v)), v_front))
          \/ StatRaises(FileAt(At(v, FinalExists(v) + 1), v_wrist))

FingerprintEpisode(v, chunk, pq, full_hash, now) ==
    LET ix == EpisodeIndexFromName(pq) IN
    IF IsNone(ix) THEN
        [episode_index |-> 0 - 1, chunk |-> chunk, parquet_uri |-> Some(pq),
         video_front_uri |-> None, video_wrist_uri |-> None,
         exists_front |-> FALSE, exists_wrist |-> FALSE,
         bytes_total |-> 0, fingerprint |-> None, fingerprint_algo |-> FINGERPRINT_ALGO,
         discovered_at |-> now, status |-> StatusValue("ERROR"),
         errors |-> Some("bad_episode_name")]
    ELSE
        LET ep_idx == Get(ix)
            v_front == VideoPath(chunk, CAMERAS[1], ep_idx)
            v_wrist == VideoPath(chunk, CAMERAS[2], ep_idx)
            raised == PartsRaise(v, pq, v_front, v_wrist)
            parts == EpisodeParts(v, pq, v_front, v_wrist, full_hash)
            pending == IF IsSome(raised) THEN FALSE
                       ELSE PendingLoop(v, pq, v_front, v_wrist) = "pending"
            exists_front == Exists(At(v, FinalExists(v)), v_front)
            exists_wrist == Exists(At(v, FinalExists(v) + 1), v_wrist)
        IN
        [episode_index |-> ep_idx, chunk |-> chunk, parquet_uri |-> Some(pq),
         video_front_uri |-> IF exists_front THEN Some(v_front) ELSE None,
         video_wrist_uri |-> IF exists_wrist THEN Some(v_wrist) ELSE None,
         exists_front |-> exists_front, exists_wrist |-> exists_wrist,
         bytes_total |-> IF IsSome(raised) THEN 0 ELSE SumSizes(parts, DOMAIN parts),
         fingerprint |-> IF IsSome(raised) THEN None ELSE Some(CombineEpisodeFingerprint(parts)),
         fingerprint_algo |-> FINGERPRINT_ALGO,
         discovered_at |-> now,
         status |-> StatusValue(EpisodeStatus(pending, exists_front, exists_wrist)),
         errors |-> raised]

----------------------------------------------------------------------------
(* steps/discover_refactored.py: discover_incremental, lines 84-163 *)

RECURSIVE SetToSeq(_)
SetToSeq(S) ==
    IF S = {} THEN <<>>
    ELSE LET x == CHOOSE y \in S : TRUE IN <<x>> \o SetToSeq(S \ {x})

Range(q) == {q[i] : i \in 1..Len(q)}

RECURSIVE Flatten(_)
Flatten(qq) == IF qq = <<>> THEN <<>> ELSE qq[1] \o Flatten(Tail(qq))

Key(r) == <<r.chunk, r.episode_index>>
Keys(rows) == {Key(rows[i]) : i \in 1..Len(rows)}

IndexOf(q, e) == CHOOSE i \in 1..Len(q) : q[i] = e

\* chunks = sorted(fs.list_chunks()) if not only_chunks_set else sorted(only_chunks_set)
TargetChunks(t, only_chunks) ==
    IF IsNone(only_chunks) \/ Get(only_chunks) = {} THEN ListChunks(t)
    ELSE SelectSeq(ChunkOrder, LAMBDA c : c \in Get(only_chunks))

\* The accesses of the scan (lines 89-97) to the file system, in program
\* order, for the paths P a tree has: the listing of the chunk directories
\* (line 89), then for each chunk the listing of its trajectory files
\* (line 91) and the stat() of each of them in sorted order (line 94).  An
\* access the call does not make (a chunk it does not visit, a file the
\* listing did not hold, no since_ns) finds nothing the call uses.
ScanPlan(P) ==
    <<[kind |-> "chunks", chunk |-> "", path |-> <<>>]>>
    \o Flatten([j \in 1..Len(ChunkOrder) |->
          LET c == ChunkOrder[j]
              files == SortedNames({p \in P : p[1] = c /\ p[2] = "data"})
          IN <<[kind |-> "list", chunk |-> c, path |-> <<>>]>>
             \o [i \in 1..Len(files) |-> [kind |-> "stat", chunk |-> c, path |-> files[i]]]])

\* the paths an access of a plan looks at
PointsOf(plan, P) ==
    [i \in 1..Len(plan) |->
        CASE plan[i].kind = "chunks" -> {p \in P : p[2] = "data"}
          [] plan[i].kind = "list" -> {p \in P : p[1] = plan[i].chunk /\ p[2] = "data"}
          [] plan[i].kind = "glob" -> {p \in P : p[1] = plan[i].chunk /\ p[2] = plan[i].cam}
          [] OTHER -> {plan[i].path}]

\* the place of an access in the plan of a view of the scan
ScanStep(v, kind, chunk, path) ==
    IndexOf(v.plan, [kind |-> kind, chunk |-> chunk, path |-> path])

\* line 89 at its access
ScanChunks(v, only_chunks) == TargetChunks(At(v, 1), only_chunks)

\* line 91: what list_parquets finds of the chunk at its access
Listed(v, chunk) ==
    IF chunk \in Chunks
    THEN ListParquets(At(v, ScanStep(v, "list", chunk, <<>>)), chunk)
    ELSE {}

\* lines 92-96 for a listed file: "keep", "skip" (older than since_ns, or
\* gone: FileNotFoundError), "raise" (any other exception of stat())
SinceFilter(v, p, since_ns) ==
    LET st == FileAt(At(v, ScanStep(v, "stat", p[1], p)), p) IN
    IF IsNone(since_ns) THEN "keep"
    ELSE IF IsNone(st) THEN "skip"
    ELSE IF StatRaises(st) THEN "raise"
    ELSE IF Get(st).mtime < Get(since_ns) THEN "skip"
    ELSE "keep"

\* pq.stat() of the since filter raises something else than FileNotFoundError
ScanRaises(v, chunks, since_ns) ==
    \E c \in Range(chunks) : \E p \in Listed(v, c) : SinceFilter(v, p, since_ns) = "raise"

\* the (chunk, pq) pairs that survive the since filter
Parquets(v, chunks, since_ns) ==
    {p \in DOMAIN v.h[1] : /\ p[1] \in Range(chunks)
                           /\ p \in Listed(v, p[1])
                           /\ SinceFilter(v, p, since_ns) = "keep"}

\* the same in the order of line 97, in which line 101 submits the tasks
Submitted(v, chunks, since_ns) ==
    Flatten([j \in 1..Len(chunks) |->
        SortedNames({p \in Parquets(v, chunks, since_ns) : p[1] = chunks[j]})])

\* a pool size without the floor of one worker
PoolSizeNoFloor(workers) == Min2(workers, 64)

\* line 100: max_workers = max(1, min(workers, 64))
PoolSize(workers) == Max2(1, Min2(workers, 64))

RECURSIVE Orderings(_)
Orderings(S) ==
    IF S = {} THEN {<<>>}
    ELSE UNION {{<<x>> \o rest : rest \in Orderings(S \ {x})} : x \in S}

\* lines 101-104: as_completed hands the futures over in any order, for
\* every pool size (the futures already done when it is called come in the
\* iteration order of a set)
AsCompleted(parquets, max_workers) == Orderings(parquets)

\* the k-th smallest of a non-empty sequence of numbers, k taken within
\* 1..Len(q)
KthSmallest(q, k) ==
    LET n == Min2(Max2(k, 1), Len(q)) IN
    CHOOSE x \in Range(q) :
        /\ Cardinality({i \in 1..Len(q) : q[i] < x}) < n
        /\ Cardinality({i \in 1..Len(q) : q[i] <= x}) >= n

\* The moments of the accesses of the tasks q[i], q[i + 1], ...: the pool
\* takes the tasks in the order of their submission, and a task beyond the
\* first max_workers starts when a thread is free, that is not before all
\* but max_workers - 1 of the tasks before it have ended (ends holds the
\* last moments of q[1] .. q[i - 1]); the scan ended at lo0, and r[i] are the
\* numbers of read() calls of task q[i]
RECURSIVE TaskVectors(_, _, _, _, _, _, _)
TaskVectors(h, lo0, q, r, max_workers, i, ends) ==
    IF i > Len(q) THEN {<<>>}
    ELSE LET lo == IF i <= max_workers \/ i = 1 THEN lo0 ELSE KthSmallest(ends, i - max_workers) IN
         UNION {{<<m>> \o rest :
                    rest \in TaskVectors(h, lo0, q, r, max_workers, i + 1, Append(ends, End(m, lo)))} :
                 m \in MomentVectors(h, lo, TaskPoints(q[i], r[i]))}

RECURSIVE MaxEnd(_, _)
MaxEnd(k, lo) == IF k = <<>> THEN lo ELSE MaxEnd(Tail(k), Max2(lo, End(k[1], lo)))

\* The accesses of the orphan pass (lines 140-157), in program order, for
\* the paths P a tree has: for each chunk and camera the listing of the
\* camera directory (lines 144-145), then exists() and stat() (line 154) of
\* each of its videos in sorted order.
OrphanPlan(P) ==
    Flatten([j \in 1..(Len(ChunkOrder) * Len(CAMERAS)) |->
        LET c == ChunkOrder[((j - 1) \div Len(CAMERAS)) + 1]
            cam == CAMERAS[((j - 1) % Len(CAMERAS)) + 1]
            files == SortedNames({p \in P : p[1] = c /\ p[2] = cam})
        IN <<[kind |-> "glob", chunk |-> c, cam |-> cam, path |-> <<>>]>>
           \o Flatten([i \in 1..Len(files) |->
                 <<[kind |-> "exists", chunk |-> c, cam |-> cam, path |-> files[i]],
                   [kind |-> "stat", chunk |-> c, cam |-> cam, path |-> files[i]]>>])])

\* the place of an access in the plan of a view of the orphan pass
OrphanStep(v, kind, chunk, cam, path) ==
    IndexOf(v.plan, [kind |-> kind, chunk |-> chunk, cam |-> cam, path |-> path])

\* An execution of lines 86-157 on the timeline h: the plans sp and op of
\* the scan and of the orphan pass, the moments s of the accesses of the
\* scan, the tasks q it submits, the numbers r[i] of read() calls and the
\* moments k[i] of the accesses of task q[i], and the moments o of the accesses of the orphan pass, which starts
\* when every task has ended (line 100: the with block)
Executions(h, args) ==
    LET P == DOMAIN h[1]
        sp == ScanPlan(P)
        op == OrphanPlan(P)
        spts == PointsOf(sp, P)
        opts == PointsOf(op, P)
    IN
    UNION {
        LET sv == [h |-> h, m |-> s, plan |-> sp]
            q == Submitted(sv, ScanChunks(sv, args.only_chunks), args.since_ns)
            r == [i \in 1..Len(q) |-> ReadCounts(h, q[i], args.full_hash)]
        IN UNION {
               {[h |-> h, sp |-> sp, op |-> op, s |-> s, q |-> q, r |-> r, k |-> k, o |-> o] :
                   o \in MomentVectors(h, MaxEnd(k, End(s, 1)), opts)} :
               k \in TaskVectors(h, End(s, 1), q, r, PoolSize(args.workers), 1, <<>>)} :
        s \in MomentVectors(h, 1, spts)}

\* the one execution of a call during which no file changes
Still(t, args) == CHOOSE x \in Executions(<<t>>, args) : TRUE

ScanView(x) == [h |-> x.h, m |-> x.s, plan |-> x.sp]
TaskView(x, p) == [h |-> x.h, m |-> x.k[IndexOf(x.q, p)], r |-> x.r[IndexOf(x.q, p)]]
OrphanView(x) == [h |-> x.h, m |-> x.o, plan |-> x.op]

AnyTaskRaises(x) == \E p \in Range(x.q) : TaskRaises(TaskView(x, p), p[1], p)

\* the tasks whose loop of lines 49-52 set pending
Unstable(x) ==
    {p \in Range(x.q) :
        LET ix == EpisodeIndexFromName(p) IN
        /\ IsSome(ix)
        /\ PendingLoop(TaskView(x, p), p, VideoPath(p[1], CAMERAS[1], Get(ix)),
                       VideoPath(p[1], CAMERAS[2], Get(ix))) = "pending"}

\* rows, in the order q in which as_completed handed over the tasks
CurrentRowsIn(x, q, full_hash, now) ==
    [i \in 1..Len(q) |-> FingerprintEpisode(TaskView(x, q[i]), q[i][1], q[i], full_hash, now)]

\* rows, in some completion order
CurrentRows(x, full_hash, now) == CurrentRowsIn(x, SetToSeq(Range(x.q)), full_hash, now)

\* a reconciliation that takes any previous fingerprint for a match
ReconcileStatusAnyPrev(r, fingerprint_prev) ==
    IF IsNone(r.fingerprint) THEN StatusStr("ERROR")
    ELSE IF IsSome(fingerprint_prev) THEN StatusStr("UNCHANGED")
    ELSE r.status

\* the when/then/otherwise of the reconciliation, for one joined row
ReconcileStatus(r, fingerprint_prev) ==
    IF IsNone(r.fingerprint) THEN StatusStr("ERROR")
    ELSE IF IsSome(fingerprint_prev) /\ r.fingerprint = fingerprint_prev
    THEN StatusStr("UNCHANGED")
    ELSE r.status

\* a join in which the stored fingerprint takes the place of the new one
JoinRowStoredFingerprint(r, prev_rows) ==
    LET m == SelectSeq(prev_rows, LAMBDA x : Key(x) = Key(r)) IN
    IF m = <<>> THEN <<[r EXCEPT !.status = ReconcileStatus(r, None)]>>
    ELSE [i \in 1..Len(m) |->
            [r EXCEPT !.status = ReconcileStatus(r, m[i].fingerprint),
                      !.fingerprint = IF IsSome(m[i].fingerprint) THEN m[i].fingerprint ELSE @]]

\* left join on (chunk, episode_index): one output row per matching row of
\* prev, one row with a null fingerprint_prev when nothing matches
JoinRow(r, prev_rows) ==
    LET m == SelectSeq(prev_rows, LAMBDA x : Key(x) = Key(r)) IN
    IF m = <<>> THEN <<[r EXCEPT !.status = ReconcileStatus(r, None)]>>
    ELSE [i \in 1..Len(m) |-> [r EXCEPT !.status = ReconcileStatus(r, m[i].fingerprint)]]

\* lines 115-122
Reconcile(cur, prev) ==
    IF IsSome(prev) /\ cur # <<>>
    THEN Flatten([i \in 1..Len(cur) |-> JoinRow(cur[i], Get(prev))])
    ELSE cur

\* a deletion row that keeps a fingerprint
DeletedRowWithFingerprint(key, now) ==
    [episode_index |-> key[2], chunk |-> key[1], parquet_uri |-> None,
     video_front_uri |-> None, video_wrist_uri |-> None,
     exists_front |-> FALSE, exists_wrist |-> FALSE,
     bytes_total |-> 0, fingerprint |-> Some(key), fingerprint_algo |-> FINGERPRINT_ALGO,
     discovered_at |-> now, status |-> StatusStr("DELETED"), errors |-> None]

DeletedRow(key, now) ==
    [episode_index |-> key[2], chunk |-> key[1], parquet_uri |-> None,
     video_front_uri |-> None, video_wrist_uri |-> None,
     exists_front |-> FALSE, exists_wrist |-> FALSE,
     bytes_total |-> 0, fingerprint |-> None, fingerprint_algo |-> FINGERPRINT_ALGO,
     discovered_at |-> now, status |-> StatusStr("DELETED"), errors |-> None]

\* a deletion pass that forgets the keys already reported DELETED
DeletedRowsOnce(df_cur, prev, now) ==
    IF IsSome(prev) /\ Get(prev) # <<>>
    THEN LET known == SelectSeq(Get(prev), LAMBDA r : r.status # StatusStr("DELETED"))
             anti == Keys(known) \ Keys(df_cur)
             q == SetToSeq(anti)
         IN [i \in 1..Len(q) |-> DeletedRow(q[i], now)]
    ELSE <<>>

\* lines 124-136: anti join of the previous keys against the current keys
DeletedRows(df_cur, prev, now) ==
    IF IsSome(prev) /\ Get(prev) # <<>>
    THEN LET anti == Keys(Get(prev)) \ Keys(df_cur)
             q == SetToSeq(anti)
         IN [i \in 1..Len(q) |-> DeletedRow(q[i], now)]
    ELSE <<>>

\* line 154: mp4.stat().st_size if mp4.exists() else 0, at its two
\* accesses; raises when exists() or stat() does (a file that cannot be
\* stat'ed, a file gone in between)
OrphanSizeRaises(v, mp4) ==
    LET e == FileAt(At(v, OrphanStep(v, "exists", mp4[1], mp4[2], mp4)), mp4)
        st == FileAt(At(v, OrphanStep(v, "stat", mp4[1], mp4[2], mp4)), mp4)
    IN StatRaises(e) \/ (IsSome(e) /\ (IsNone(st) \/ StatRaises(st)))

OrphanSize(v, mp4) ==
    LET e == FileAt(At(v, OrphanStep(v, "exists", mp4[1], mp4[2], mp4)), mp4)
        st == FileAt(At(v, OrphanStep(v, "stat", mp4[1], mp4[2], mp4)), mp4)
    IN IF IsNone(e) THEN 0 ELSE FileSize(Get(st))

\* an orphan row that names the video under both camera views
OrphanRowBothViews(v, mp4, ep_idx, now) ==
    [episode_index |-> ep_idx, chunk |-> mp4[1], parquet_uri |-> None,
     video_front_uri |-> Some(mp4), video_wrist_uri |-> Some(mp4),
     exists_front |-> TRUE, exists_wrist |-> TRUE,
     bytes_total |-> OrphanSize(v, mp4),
     fingerprint |-> None, fingerprint_algo |-> FINGERPRINT_ALGO,
     discovered_at |-> now, status |-> StatusStr("ORPHAN_VIDEO"), errors |-> None]

OrphanRow(v, mp4, ep_idx, now) ==
    [episode_index |-> ep_idx, chunk |-> mp4[1], parquet_uri |-> None,
     video_front_uri |-> IF mp4[2] = CAMERAS[1] THEN Some(mp4) ELSE None,
     video_wrist_uri |-> IF mp4[2] = CAMERAS[2] THEN Some(mp4) ELSE None,
     exists_front |-> mp4[2] = CAMERAS[1], exists_wrist |-> mp4[2] = CAMERAS[2],
     bytes_total |-> OrphanSize(v, mp4),
     fingerprint |-> None, fingerprint_algo |-> FINGERPRINT_ALGO,
     discovered_at |-> now, status |-> StatusStr("ORPHAN_VIDEO"), errors |-> None]

\* lines 138-157: the videos the listings of the target chunks hold whose
\* key has no current row
OrphanVideos(v, chunks, df_cur) ==
    {mp4 \in DOMAIN v.h[1] :
        /\ mp4[1] \in Range(chunks) /\ mp4[1] \in Chunks
        /\ mp4[2] \in Range(CAMERAS)
        /\ mp4 \in ListVideos(At(v, OrphanStep(v, "glob", mp4[1], mp4[2], <<>>)),
                              mp4[1], mp4[2])
        /\ IsSome(ParseInt(mp4[3]))
        /\ <<mp4[1], Get(ParseInt(mp4[3]))>> \notin Keys(df_cur)}

OrphanRaises(v, chunks, df_cur) ==
    \E mp4 \in OrphanVideos(v, chunks, df_cur) : OrphanSizeRaises(v, mp4)

\* the orphan rows in the order of the pass: chunks, cameras, sorted names
OrphanRows(v, chunks, df_cur, now) ==
    LET found == OrphanVideos(v, chunks, df_cur)
        q == Flatten([j \in 1..Len(chunks) |->
                Flatten([c \in 1..Len(CAMERAS) |->
                    SortedNames({p \in found : p[1] = chunks[j] /\ p[2] = CAMERAS[c]})])])
    IN [i \in 1..Len(q) |-> OrphanRow(v, q[i], Get(ParseInt(q[i][3])), now)]

KeyLess(a, b) ==
    \/ ChunkRank(a[1]) < ChunkRank(b[1])
    \/ a[1] = b[1] /\ a[2] < b[2]

RemoveAt(q, i) == [j \in 1..(Len(q) - 1) |-> IF j < i THEN q[j] ELSE q[j + 1]]

\* the rows left in the order of their concatenation
ConcatenationOrder(q) == {q}

\* .sort(["chunk", "episode_index"]): every arrangement of the rows in
\* non-decreasing key order; rows with equal keys come in any order
RECURSIVE SortedArrangements(_)
SortedArrangements(q) ==
    IF q = <<>> THEN {<<>>}
    ELSE LET least == {i \in 1..Len(q) : \A j \in 1..Len(q) : ~KeyLess(Key(q[j]), Key(q[i]))}
             \* equal rows are interchangeable: take the first of each
             firsts == {i \in least : \A j \in least : j < i => q[j] # q[i]}
         IN UNION {{<<q[i]>> \o rest : rest \in SortedArrangements(RemoveAt(q, i))} : i \in firsts}

\* lines 86-163 up to the sort, for the completion order q: the rows of
\* df_all before sorting
UnsortedAllIn(x, prev, args, now, q) ==
    LET chunks == ScanChunks(ScanView(x), args.only_chunks)
        df_cur == Reconcile(CurrentRowsIn(x, q, args.full_hash, now), prev)
    IN df_cur \o DeletedRows(df_cur, prev, now) \o OrphanRows(OrphanView(x), chunks, df_cur, now)

\* the same for some completion order
UnsortedAll(x, prev, args, now) == UnsortedAllIn(x, prev, args, now, SetToSeq(Range(x.q)))

\* an exception leaves discover_incremental before anything is written
RunRaises(x, prev, args, now) ==
    LET chunks == ScanChunks(ScanView(x), args.only_chunks) IN
    \/ ScanRaises(ScanView(x), chunks, args.since_ns)
    \/ AnyTaskRaises(x)
    \/ OrphanRaises(OrphanView(x), chunks, Reconcile(CurrentRows(x, args.full_hash, now), prev))

\* lines 166-170
ActionableStrs ==
    {StatusStr("NEW"), StatusStr("CHANGED"), StatusStr("MISSING_SIDE"),
     StatusStr("DELETED"), StatusStr("ORPHAN_VIDEO"), StatusStr("PENDING"),
     StatusStr("ERROR")}

Returned(df_all) == SelectSeq(df_all, LAMBDA r : r.status \in ActionableStrs)

----------------------------------------------------------------------------
(* steps/validate_from_manifest_refactored.py: the status filter *)

ACTIONABLE == {"NEW", "CHANGED", "MISSING_SIDE", "PENDING", "ERROR", "ORPHAN_VIDEO"}

\* line 43: status.is_in([s.value for s in ACTIONABLE])
ValidationSelects(r) == r.status \in {StatusValue(s) : s \in ACTIONABLE}

----------------------------------------------------------------------------
(* steps/discover_refactored.py: write_atomic_parquet, lines 23-27 *)

Absent == [state |-> "absent", rows |-> <<>>]
Partial == [state |-> "partial", rows |-> <<>>]
Complete(rows) == [state |-> "complete", rows |-> rows]

\* the temporary file is the manifest file itself
TmpPathInPlace(out) == out

\* tmp = out.with_suffix(out.suffix + ".tmp")
TmpPath(out) == CASE out = "out" -> "tmp"

\* the rename with its arguments exchanged
OsReplaceSwapped(d, src, dst) ==
    IF src = dst THEN d ELSE [d EXCEPT ![src] = d[dst], ![dst] = Absent]

\* os.replace(tmp, out)
OsReplace(d, src, dst) ==
    IF src = dst THEN d ELSE [d EXCEPT ![dst] = d[src], ![src] = Absent]

----------------------------------------------------------------------------
(* The data trees and the arguments of the calls *)

Sfx0 == Format06d(0)
Sfx1 == Format06d(1)

FileA == [data |-> <<<<10, 1>>>>, mtime |-> 1, access |-> "ok"]
FileB == [data |-> <<<<12, 2>>>>, mtime |-> 2, access |-> "ok"]
FileNoRead == [data |-> <<<<10, 1>>>>, mtime |-> 1, access |-> "noread"]
FileNoStat == [data |-> <<<<10, 1>>>>, mtime |-> 1, access |-> "nostat"]
\* a finished recording whose head, middle and tail differ
FileBig == [data |-> <<<<SAMPLE_BYTES, 1>>, <<STABILITY_MIN_BYTES, 0>>, <<SAMPLE_BYTES, 3>>>>,
            mtime |-> 2, access |-> "ok"]

\* the same recording after the recorder has appended to it
FileGrown == [data |-> <<<<SAMPLE_BYTES, 1>>, <<STABILITY_MIN_BYTES, 0>>, <<SAMPLE_BYTES, 3>>,
                         <<SAMPLE_BYTES, 4>>>>,
              mtime |-> 3, access |-> "ok"]

\* the same recording with other bytes in the middle only
FileBigMid == [data |-> <<<<SAMPLE_BYTES, 1>>, <<STABILITY_MIN_BYTES, 7>>, <<SAMPLE_BYTES, 3>>>>,
               mtime |-> 2, access |-> "ok"]

\* files of exactly SAMPLE_BYTES bytes, between once and twice SAMPLE_BYTES,
\* exactly twice SAMPLE_BYTES and one byte more, whose first and last bytes
\* differ
FileHead == [data |-> <<<<SAMPLE_BYTES, 1>>>>, mtime |-> 1, access |-> "ok"]
FileMid == [data |-> <<<<SAMPLE_BYTES, 1>>, <<34464, 3>>>>,
            mtime |-> 1, access |-> "ok"]
FileTwice == [data |-> <<<<SAMPLE_BYTES, 1>>, <<SAMPLE_BYTES, 3>>>>,
              mtime |-> 1, access |-> "ok"]
FileOver == [data |-> <<<<SAMPLE_BYTES, 1>>, <<1, 0>>, <<SAMPLE_BYTES, 3>>>>,
             mtime |-> 1, access |-> "ok"]

\* FileOver rewritten with the same size and modification time and one
\* other byte: the byte between the two samples, the last byte of the head
\* sample, the first byte of the tail sample; and FileOver with its bytes
\* and another modification time
FileOverMid == [FileOver EXCEPT !.data = <<<<SAMPLE_BYTES, 1>>, <<1, 7>>, <<SAMPLE_BYTES, 3>>>>]
FileOverHead ==
    [FileOver EXCEPT !.data = <<<<SAMPLE_BYTES - 1, 1>>, <<1, 5>>, <<1, 0>>, <<SAMPLE_BYTES, 3>>>>]
FileOverTail ==
    [FileOver EXCEPT !.data = <<<<SAMPLE_BYTES, 1>>, <<1, 0>>, <<1, 6>>, <<SAMPLE_BYTES - 1, 3>>>>]
FileOverTouched == [FileOver EXCEPT !.mtime = 4]

Pq0 == <<"000", "data", Sfx0>>
Pq1 == <<"000", "data", Sfx1>>
PqX == <<"000", "data", <<"x">>>>
PqY == <<"000", "data", <<"y">>>>
Front0 == <<"000", CAMERAS[1], Sfx0>>
Wrist0 == <<"000", CAMERAS[2], Sfx0>>
Pq0Chunk1 == <<"001", "data", Sfx0>>

AllPaths == {Pq0, Pq1, PqX, PqY, Front0, Wrist0, Pq0Chunk1}

\* what each path may hold while whole calls are followed
Slots ==
    [p \in {Pq0, PqX, Front0, Wrist0} |->
        CASE p = Pq0 -> {None, Some(FileA), Some(FileB), Some(FileNoRead), Some(FileBig)}
          [] OTHER -> {None, Some(FileA)}]

\* what each path may hold while the persistence step is followed step by step
SlotsPersist ==
    [p \in {Pq0, PqX, Front0} |->
        CASE p = Pq0 -> {None, Some(FileA), Some(FileB)}
          [] p = Front0 -> {None, Some(FileA), Some(FileNoStat)}
          [] OTHER -> {None, Some(FileA)}]

\* the trees in which the paths of slots hold one of their values and every other path is absent
TreesOf(slots) ==
    {[p \in AllPaths |-> IF p \in DOMAIN slots THEN s[p] ELSE None] :
        s \in {x \in [DOMAIN slots -> UNION {slots[p] : p \in DOMAIN slots}] :
                  \A p \in DOMAIN slots : x[p] \in slots[p]}}

DefaultArgs == [workers |-> 16, since_ns |-> None, full_hash |-> FALSE, only_chunks |-> None]

ArgChoices == {DefaultArgs, [DefaultArgs EXCEPT !.since_ns = Some(2)]}

----------------------------------------------------------------------------
(* The state machine *)

\* a finished call: tree is the tree at its start, seen its timeline,
\* scanned the trajectory files it dispatched for fingerprinting, unstable
\* those of them for which the stability check failed
NoRun == [outcome |-> "none", cause |-> "none", tree |-> << >>, seen |-> << >>, scanned |-> {},
          unstable |-> {},
          args |-> DefaultArgs, prev |-> Absent, snap |-> Absent, ret |-> <<>>]

NoCall == [args |-> DefaultArgs, prev |-> Absent, df_all |-> <<>>, seen |-> << >>, scanned |-> {},
           unstable |-> {}]

\* The timelines of a call that starts on tree t while the environment may
\* still make n changes, each to one path of slots
RECURSIVE TimelinesFrom(_, _, _)
TimelinesFrom(t, slots, n) ==
    {<<t>>} \cup
    (IF n = 0 THEN {}
     ELSE UNION {UNION {{<<t>> \o rest : rest \in TimelinesFrom([t EXCEPT ![p] = v], slots, n - 1)} :
                           v \in slots[p] \ {t[p]}} :
                    p \in DOMAIN slots})

\* the recorder or an operator changes files while the call runs
Timelines(slots) == TimelinesFrom(tree, slots, MaxChanges - nchanges)

\* no file changes while the call runs
AtRest == {<<tree>>}

Init ==
    /\ tree \in TreesOf(Slots)
    /\ disk = [f \in {"out", "tmp"} |-> Absent]
    /\ pc = "idle"
    /\ run = NoCall
    /\ last = NoRun
    /\ before = NoRun
    /\ nruns = 0
    /\ nchanges = 0

\* line 85: prev = read_parquet(manifest_out) if manifest_out.exists() else None
LoadPrev(d) == IF d["out"].state = "absent" THEN None ELSE Some(d["out"].rows)

\* the call returns or raises: it becomes the last finished call; cause is
\* the place where it left discover_incremental
Finish(outcome, cause, args, seen, scanned, unstable, prevfile, d, ret) ==
    /\ before' = last
    /\ last' = [outcome |-> outcome, cause |-> cause, tree |-> seen[1], seen |-> seen,
                scanned |-> scanned, unstable |-> unstable, args |-> args,
                prev |-> prevfile, snap |-> d["out"], ret |-> ret]

\* lines 23-27 without interruption
WriteAtomicParquet(d, df) ==
    OsReplace([d EXCEPT ![TmpPath("out")] = Complete(df)], TmpPath("out"), "out")

\* where a call raises before line 164: reading the previous manifest
\* (line 85, whenever the file exists), else the first of the since filter
\* (line 94), a task's result (line 103) and the orphan pass (line 154)
RaiseCauses(x, d, args, now) ==
    LET chunks == ScanChunks(ScanView(x), args.only_chunks)
    IN (IF d["out"].state # "absent" THEN {"read_manifest"} ELSE {})
       \cup (IF ~RunRaises(x, LoadPrev(d), args, now) THEN {}
             ELSE IF ScanRaises(ScanView(x), chunks, args.since_ns) THEN {"scan"}
             ELSE IF AnyTaskRaises(x) THEN {"task"}
             ELSE {"orphan_pass"})

\* line 101 submits every task before line 103 takes a result: a call that
\* raises at line 85 or in the scan has dispatched nothing
Dispatched(x, cause) == IF cause \in {"read_manifest", "scan"} THEN {} ELSE Range(x.q)

\* One whole call of discover_incremental that returns, while the files
\* go through the timeline h.
Discover(args, h) ==
    /\ pc = "idle" /\ nruns < MaxRuns
    /\ disk["out"].state # "partial"
    /\ \E x \in Executions(h, args) :
          /\ ~RunRaises(x, LoadPrev(disk), args, nruns + 1)
          /\ \E df_all \in SortedArrangements(UnsortedAll(x, LoadPrev(disk), args, nruns + 1)) :
                /\ disk' = WriteAtomicParquet(disk, df_all)
                /\ Finish("ok", "return", args, h, Range(x.q), Unstable(x), disk["out"], disk', Returned(df_all))
    /\ tree' = h[Len(h)]
    /\ nruns' = nruns + 1
    /\ nchanges' = nchanges + Len(h) - 1
    /\ UNCHANGED <<pc, run>>

\* One whole call that raises before line 164: the previous manifest cannot
\* be read (line 85), or an exception escapes the scan, a task or the
\* orphan pass.
DiscoverRaises(args, h) ==
    /\ pc = "idle" /\ nruns < MaxRuns
    /\ \E x \in Executions(h, args) :
       \E cause \in RaiseCauses(x, disk, args, nruns + 1) :
          Finish("error", cause, args, h, Dispatched(x, cause), Unstable(x) \cap Dispatched(x, cause),
                 disk["out"], disk, <<>>)
    /\ tree' = h[Len(h)]
    /\ nruns' = nruns + 1
    /\ nchanges' = nchanges + Len(h) - 1
    /\ UNCHANGED <<disk, pc, run>>

\* between two calls the recorder or an operator changes one file (what
\* changes during the persistence step of a call no access of that call
\* finds: it is a change after the call)
ChangeOneFile(slots) ==
    /\ pc = "idle" /\ nchanges < MaxChanges
    /\ \E p \in DOMAIN slots : \E v \in slots[p] \ {tree[p]} :
          tree' = [tree EXCEPT ![p] = v]
    /\ nchanges' = nchanges + 1
    /\ UNCHANGED <<disk, pc, run, last, before, nruns>>

FsChange == ChangeOneFile(Slots)

Next ==
    \/ \E args \in ArgChoices : \E h \in Timelines(Slots) : Discover(args, h)
    \/ \E args \in ArgChoices : \E h \in Timelines(Slots) : DiscoverRaises(args, h)
    \/ FsChange

Spec == Init /\ [][Next]_vars

----------------------------------------------------------------------------
(* The same call, step by step through its persistence (lines 164, 23-27) *)

\* lines 84-163: everything up to the call of write_atomic_parquet
Start(args, h) ==
    /\ pc = "idle" /\ nruns < MaxRuns
    /\ disk["out"].state # "partial"
    /\ \E x \in Executions(h, args) :
          /\ ~RunRaises(x, LoadPrev(disk), args, nruns + 1)
          /\ \E df_all \in SortedArrangements(UnsortedAll(x, LoadPrev(disk), args, nruns + 1)) :
                run' = [args |-> args, prev |-> disk["out"], df_all |-> df_all,
                        seen |-> h, scanned |-> Range(x.q), unstable |-> Unstable(x)]
    /\ pc' = "write"
    /\ tree' = h[Len(h)]
    /\ nruns' = nruns + 1
    /\ nchanges' = nchanges + Len(h) - 1
    /\ UNCHANGED <<disk, last, before>>

\* line 26, first part: the temporary file is created and partly written
BeginWrite ==
    /\ pc = "write"
    /\ disk' = [disk EXCEPT ![TmpPath("out")] = Partial]
    /\ pc' = "writing"
    /\ UNCHANGED <<tree, run, last, before, nruns, nchanges>>

\* line 26, second part: the temporary file is complete
FinishWrite ==
    /\ pc = "writing"
    /\ disk' = [disk EXCEPT ![TmpPath("out")] = Complete(run.df_all)]
    /\ pc' = "replace"
    /\ UNCHANGED <<tree, run, last, before, nruns, nchanges>>

\* line 27: the rename, then lines 166-170: the actionable rows are returned
Replace ==
    /\ pc = "replace"
    /\ disk' = OsReplace(disk, TmpPath("out"), "out")
    /\ Finish("ok", "return", run.args, run.seen, run.scanned, run.unstable, run.prev, disk', Returned(run.df_all))
    /\ pc' = "idle"
    /\ UNCHANGED <<tree, run, nruns, nchanges>>

\* lines 24-27 raise (disk full, permission): the call raises where it stands
PersistFails ==
    /\ pc \in {"write", "writing", "replace"}
    /\ Finish("error", "write", run.args, run.seen, run.scanned, run.unstable, run.prev, disk, <<>>)
    /\ pc' = "idle"
    /\ UNCHANGED <<tree, disk, run, nruns, nchanges>>

\* the process is killed during the persistence step
Interrupt ==
    /\ pc \in {"write", "writing", "replace"}
    /\ Finish("killed", "killed", run.args, run.seen, run.scanned, run.unstable, run.prev, disk, <<>>)
    /\ pc' = "idle"
    /\ UNCHANGED <<tree, disk, run, nruns, nchanges>>

InitPersist ==
    /\ tree \in TreesOf(SlotsPersist)
    /\ disk = [f \in {"out", "tmp"} |-> Absent]
    /\ pc = "idle"
    /\ run = NoCall
    /\ last = NoRun
    /\ before = NoRun
    /\ nruns = 0
    /\ nchanges = 0

FsChangePersist == ChangeOneFile(SlotsPersist)

NextPersist ==
    \/ \E args \in ArgChoices : \E h \in Timelines(SlotsPersist) : Start(args, h)
    \/ \E args \in ArgChoices : \E h \in Timelines(SlotsPersist) : DiscoverRaises(args, h)
    \/ BeginWrite
    \/ FinishWrite
    \/ Replace
    \/ PersistFails
    \/ Interrupt
    \/ FsChangePersist

SpecPersist == InitPersist /\ [][NextPersist]_vars

----------------------------------------------------------------------------
(* The same call with the completion order of its tasks made explicit, on
   trees in which several trajectory files share a key *)

SlotsOrder == [p \in {Pq0, PqX, PqY} |-> {None, Some(FileA)}]

ArgChoicesOrder == {[DefaultArgs EXCEPT !.workers = w] : w \in {1, 32}}

InitOrder ==
    /\ tree \in TreesOf(SlotsOrder)
    /\ disk = [f \in {"out", "tmp"} |-> Absent]
    /\ pc = "idle"
    /\ run = NoCall
    /\ last = NoRun
    /\ before = NoRun
    /\ nruns = 0
    /\ nchanges = 0

\* One whole call that returns, while the files go through the timeline
\* h; q is the order in which as_completed handed over the tasks.
DiscoverOrdered(args, h) ==
    /\ pc = "idle" /\ nruns < MaxRuns
    /\ disk["out"].state # "partial"
    /\ \E x \in Executions(h, args) :
          /\ ~RunRaises(x, LoadPrev(disk), args, nruns + 1)
          /\ \E q \in AsCompleted(Range(x.q), PoolSize(args.workers)) :
             \E df_all \in SortedArrangements(UnsortedAllIn(x, LoadPrev(disk), args, nruns + 1, q)) :
                /\ disk' = WriteAtomicParquet(disk, df_all)
                /\ Finish("ok", "return", args, h, Range(x.q), Unstable(x), disk["out"], disk', Returned(df_all))
    /\ tree' = h[Len(h)]
    /\ nruns' = nruns + 1
    /\ nchanges' = nchanges + Len(h) - 1
    /\ UNCHANGED <<pc, run>>

\* the operator puts the manifest file back to what the last call started from
RestoreManifest ==
    /\ pc = "idle" /\ last.outcome = "ok"
    /\ disk["out"] # last.prev
    /\ disk' = [disk EXCEPT !["out"] = last.prev]
    /\ UNCHANGED <<tree, pc, run, last, before, nruns, nchanges>>

FsChangeOrder == ChangeOneFile(SlotsOrder)

NextOrder ==
    \/ \E args \in ArgChoicesOrder : \E h \in Timelines(SlotsOrder) : DiscoverOrdered(args, h)
    \/ \E args \in ArgChoicesOrder : \E h \in Timelines(SlotsOrder) : DiscoverRaises(args, h)
    \/ RestoreManifest
    \/ FsChangeOrder

SpecOrder == InitOrder /\ [][NextOrder]_vars

----------------------------------------------------------------------------
(* The same call on recordings of more than 50 MiB, with and without
   full_hash *)

SlotsHash ==
    [p \in {Pq0, Front0, Pq0Chunk1} |->
        CASE p = Pq0 -> {None, Some(FileBig), Some(FileBigMid)}
          [] OTHER -> {None, Some(FileA)}]

ArgChoicesHash ==
    {[DefaultArgs EXCEPT !.workers = w, !.full_hash = h] : w \in {1, 32}, h \in BOOLEAN}

InitHash ==
    /\ tree \in TreesOf(SlotsHash)
    /\ disk = [f \in {"out", "tmp"} |-> Absent]
    /\ pc = "idle"
    /\ run = NoCall
    /\ last = NoRun
    /\ before = NoRun
    /\ nruns = 0
    /\ nchanges = 0

FsChangeHash == ChangeOneFile(SlotsHash)

NextHash ==
    \/ \E args \in ArgChoicesHash : \E h \in Timelines(SlotsHash) : DiscoverOrdered(args, h)
    \/ \E args \in ArgChoicesHash : \E h \in Timelines(SlotsHash) : DiscoverRaises(args, h)
    \/ RestoreManifest
    \/ FsChangeHash

SpecHash == InitHash /\ [][NextHash]_vars

----------------------------------------------------------------------------
(* The same call, step by step through its thread pool (lines 99-104), on
   files at rest *)

SlotsPool == [p \in {Pq0, Pq1, PqX} |-> {None, Some(FileA)}]

ArgChoicesPool == {[DefaultArgs EXCEPT !.workers = w] : w \in {0 - 3, 0, 2, 100}}

InitPool ==
    /\ tree \in TreesOf(SlotsPool)
    /\ disk = [f \in {"out", "tmp"} |-> Absent]
    /\ pc = "idle"
    /\ run = NoCall
    /\ last = NoRun
    /\ before = NoRun
    /\ nruns = 0
    /\ nchanges = 0

\* lines 84-100: the previous manifest is read, the trajectory files are
\* listed and the executor is made; no task is submitted yet
PoolStart(args) ==
    /\ pc = "idle" /\ nruns < MaxRuns
    /\ disk["out"].state # "partial"
    /\ ~RunRaises(Still(tree, args), LoadPrev(disk), args, nruns + 1)
    /\ run' = [args |-> args, prev |-> disk["out"], df_all |-> <<>>,
               seen |-> <<tree>>, scanned |-> Range(Still(tree, args).q),
               unstable |-> Unstable(Still(tree, args)),
               max_workers |-> PoolSize(args.workers),
               todo |-> Still(tree, args).q,
               queue |-> <<>>, threads |-> 0, idle |-> 0, running |-> {}, done |-> {}]
    /\ pc' = "pool"
    /\ nruns' = nruns + 1
    /\ UNCHANGED <<tree, disk, last, before, nchanges>>

\* line 101, one ex.submit: the work item is queued; a thread is started
\* when no thread is idle and fewer than max_workers threads exist
Submit ==
    /\ pc = "pool" /\ run.todo # <<>>
    /\ run' = [run EXCEPT
                 !.todo = Tail(@),
                 !.queue = Append(@, Head(run.todo)),
                 !.idle = IF @ > 0 THEN @ - 1 ELSE @,
                 !.threads = IF run.idle = 0 /\ @ < run.max_workers THEN @ + 1 ELSE @]
    /\ UNCHANGED <<tree, disk, pc, last, before, nruns, nchanges>>

\* a thread of the pool that runs no task takes the next work item
TaskStart ==
    /\ pc = "pool" /\ run.queue # <<>>
    /\ Cardinality(run.running) < run.threads
    /\ run' = [run EXCEPT !.queue = Tail(@), !.running = @ \cup {Head(run.queue)}]
    /\ UNCHANGED <<tree, disk, pc, last, before, nruns, nchanges>>

\* fingerprint_episode returns in its thread, which counts as idle again
TaskDone(p) ==
    /\ pc = "pool" /\ p \in run.running
    /\ run' = [run EXCEPT !.running = @ \ {p}, !.done = @ \cup {p}, !.idle = @ + 1]
    /\ UNCHANGED <<tree, disk, pc, last, before, nruns, nchanges>>

\* lines 102-170 once every future is done: the rows are collected in the
\* order as_completed hands them over, reconciled, sorted, persisted
PoolFinish ==
    /\ pc = "pool" /\ run.todo = <<>> /\ run.queue = <<>> /\ run.running = {}
    /\ \E q \in AsCompleted(run.done, run.max_workers) :
       \E df_all \in SortedArrangements(
                        UnsortedAllIn(Still(tree, run.args), LoadPrev([out |-> run.prev]),
                                      run.args, nruns, q)) :
          /\ disk' = WriteAtomicParquet(disk, df_all)
          /\ Finish("ok", "return", run.args, run.seen, run.scanned, run.unstable, run.prev, disk', Returned(df_all))
    /\ pc' = "idle"
    /\ UNCHANGED <<tree, run, nruns, nchanges>>

NextPool ==
    \/ \E args \in ArgChoicesPool : PoolStart(args)
    \/ \E args \in ArgChoicesPool : \E h \in AtRest : DiscoverRaises(args, h)
    \/ Submit
    \/ TaskStart
    \/ \E p \in AllPaths : TaskDone(p)
    \/ PoolFinish

SpecPool == InitPool /\ [][NextPool]_vars

\* the threads of the pool are scheduled and every task returns
SpecPoolFair ==
    /\ SpecPool
    /\ WF_vars(TaskStart)
    /\ WF_vars(\E p \in AllPaths : TaskDone(p))

----------------------------------------------------------------------------
(* Calls that start from the manifest an earlier call left behind *)

SlotsKeys == [p \in {Pq0, Wrist0, Pq0Chunk1} |-> {None, Some(FileA)}]

ArgChoicesKeys == {DefaultArgs, [DefaultArgs EXCEPT !.only_chunks = Some({"001"})]}

\* the manifest path holds what a call with default arguments persisted for
\* some earlier tree (clock 0); the tree has changed since
InitKeys ==
    /\ tree \in TreesOf(SlotsKeys)
    /\ \E t0 \in TreesOf(SlotsKeys) :
       \E df \in SortedArrangements(UnsortedAll(Still(t0, DefaultArgs), None, DefaultArgs, 0)) :
          disk = [f \in {"out", "tmp"} |-> IF f = "out" THEN Complete(df) ELSE Absent]
    /\ pc = "idle"
    /\ run = NoCall
    /\ last = NoRun
    /\ before = NoRun
    /\ nruns = 0
    /\ nchanges = 0

FsChangeKeys == ChangeOneFile(SlotsKeys)

NextKeys ==
    \/ \E args \in ArgChoicesKeys : \E h \in Timelines(SlotsKeys) : Discover(args, h)
    \/ \E args \in ArgChoicesKeys : \E h \in Timelines(SlotsKeys) : DiscoverRaises(args, h)
    \/ FsChangeKeys

SpecKeys == InitKeys /\ [][NextKeys]_vars

----------------------------------------------------------------------------
(* Calls on trajectory files of sizes around SAMPLE_BYTES and twice
   SAMPLE_BYTES, with and without full_hash *)

SlotsSample ==
    [p \in {Pq0, Front0} |->
        CASE p = Pq0 -> {None, Some(FileA), Some(FileHead), Some(FileMid), Some(FileTwice),
                         Some(FileOver), Some(FileBig)}
          [] OTHER -> {None, Some(FileMid)}]

ArgChoicesSample == {[DefaultArgs EXCEPT !.full_hash = h] : h \in BOOLEAN}

InitSample ==
    /\ tree \in TreesOf(SlotsSample)
    /\ disk = [f \in {"out", "tmp"} |-> Absent]
    /\ pc = "idle"
    /\ run = NoCall
    /\ last = NoRun
    /\ before = NoRun
    /\ nruns = 0
    /\ nchanges = 0

FsChangeSample == ChangeOneFile(SlotsSample)

NextSample ==
    \/ \E args \in ArgChoicesSample : \E h \in Timelines(SlotsSample) : Discover(args, h)
    \/ \E args \in ArgChoicesSample : \E h \in Timelines(SlotsSample) : DiscoverRaises(args, h)
    \/ FsChangeSample

SpecSample == InitSample /\ [][NextSample]_vars

----------------------------------------------------------------------------
(* Calls on a trajectory file that is rewritten between them in one respect
   at a time: its size, its modification time, a byte of the head sample, of
   the tail sample or between the two; with and without full_hash *)

SlotsDigest ==
    [p \in {Pq0, Front0} |->
        CASE p = Pq0 -> {Some(FileOver), Some(FileOverMid), Some(FileOverHead),
                         Some(FileOverTail), Some(FileOverTouched), Some(FileTwice)}
          [] OTHER -> {None, Some(FileA)}]

ArgChoicesDigest == {[DefaultArgs EXCEPT !.full_hash = h] : h \in BOOLEAN}

InitDigest ==
    /\ tree \in TreesOf(SlotsDigest)
    /\ disk = [f \in {"out", "tmp"} |-> Absent]
    /\ pc = "idle"
    /\ run = NoCall
    /\ last = NoRun
    /\ before = NoRun
    /\ nruns = 0
    /\ nchanges = 0

FsChangeDigest == ChangeOneFile(SlotsDigest)

NextDigest ==
    \/ \E args \in ArgChoicesDigest : \E h \in Timelines(SlotsDigest) : Discover(args, h)
    \/ \E args \in ArgChoicesDigest : \E h \in Timelines(SlotsDigest) : DiscoverRaises(args, h)
    \/ FsChangeDigest

SpecDigest == InitDigest /\ [][NextDigest]_vars

----------------------------------------------------------------------------
(* Repeated calls on two episodes, with one and with 32 workers, with and
   without full_hash, in every completion order, and on manifests of
   different ages *)

SlotsRepeat ==
    [p \in {Pq0, Pq1} |->
        CASE p = Pq0 -> {Some(FileOver), Some(FileOverTail)}
          [] OTHER -> {None, Some(FileA)}]

ArgChoicesRepeat ==
    {[DefaultArgs EXCEPT !.workers = w, !.full_hash = h] : w \in {1, 32}, h \in BOOLEAN}

InitRepeat ==
    /\ tree \in TreesOf(SlotsRepeat)
    /\ disk = [f \in {"out", "tmp"} |-> Absent]
    /\ pc = "idle"
    /\ run = NoCall
    /\ last = NoRun
    /\ before = NoRun
    /\ nruns = 0
    /\ nchanges = 0

FsChangeRepeat == ChangeOneFile(SlotsRepeat)

\* the operator puts a backup at the manifest path: the manifest a call
\* with default arguments persisted (clock 0) when one file was another
RestoreBackup ==
    /\ pc = "idle" /\ last.outcome = "ok" /\ disk["out"] = last.snap
    /\ \E h \in TimelinesFrom(tree, SlotsRepeat, 1) :
          /\ Len(h) = 2
          /\ \E df \in SortedArrangements(UnsortedAll(Still(h[2], DefaultArgs), None, DefaultArgs, 0)) :
                disk' = [disk EXCEPT !["out"] = Complete(df)]
    /\ UNCHANGED <<tree, pc, run, last, before, nruns, nchanges>>

NextRepeat ==
    \/ \E args \in ArgChoicesRepeat : \E h \in Timelines(SlotsRepeat) : DiscoverOrdered(args, h)
    \/ \E args \in ArgChoicesRepeat : \E h \in Timelines(SlotsRepeat) : DiscoverRaises(args, h)
    \/ RestoreBackup
    \/ FsChangeRepeat

SpecRepeat == InitRepeat /\ [][NextRepeat]_vars

----------------------------------------------------------------------------
(* Calls during each of which the files may change more than once: a
   recording is deleted or replaced and a video the call cannot stat
   appears while the call runs *)

MaxCallChanges == 2

SlotsRace ==
    [p \in {Pq0, Front0} |->
        CASE p = Pq0 -> {None, Some(FileBig), Some(FileB)}
          [] OTHER -> {None, Some(FileNoStat)}]

TimelinesRace == TimelinesFrom(tree, SlotsRace, MaxCallChanges)

InitRace ==
    /\ tree \in TreesOf(SlotsRace)
    /\ disk = [f \in {"out", "tmp"} |-> Absent]
    /\ pc = "idle"
    /\ run = NoCall
    /\ last = NoRun
    /\ before = NoRun
    /\ nruns = 0
    /\ nchanges = 0

NextRace ==
    \/ \E h \in TimelinesRace : Discover(DefaultArgs, h)
    \/ \E h \in TimelinesRace : DiscoverRaises(DefaultArgs, h)

SpecRace == InitRace /\ [][NextRace]_vars

----------------------------------------------------------------------------
(* Calls that catch a recording of more than 50 MiB while the recorder
   appends to it or rewrites it, and calls after the recorder has done so
   between two calls *)

MaxPendingChanges == 2

SlotsPending ==
    [p \in {Pq0, Front0, Wrist0} |->
        CASE p = Pq0 -> {Some(FileBig), Some(FileGrown), Some(FileBigMid)}
          [] p = Front0 -> {None, Some(FileA)}
          [] OTHER -> {Some(FileA)}]

\* a file changes while the call runs
TimelinesPending == TimelinesFrom(tree, SlotsPending, Min2(1, MaxPendingChanges - nchanges))

InitPending ==
    /\ tree \in TreesOf(SlotsPending)
    /\ disk = [f \in {"out", "tmp"} |-> Absent]
    /\ pc = "idle"
    /\ run = NoCall
    /\ last = NoRun
    /\ before = NoRun
    /\ nruns = 0
    /\ nchanges = 0

\* a file changes between two calls
FsChangePending ==
    /\ pc = "idle" /\ nchanges < MaxPendingChanges
    /\ \E p \in DOMAIN SlotsPending : \E v \in SlotsPending[p] \ {tree[p]} :
          tree' = [tree EXCEPT ![p] = v]
    /\ nchanges' = nchanges + 1
    /\ UNCHANGED <<disk, pc, run, last, before, nruns>>

NextPending ==
    \/ \E h \in TimelinesPending : Discover(DefaultArgs, h)
    \/ \E h \in TimelinesPending : DiscoverRaises(DefaultArgs, h)
    \/ FsChangePending

SpecPending == InitPending /\ [][NextPending]_vars

----------------------------------------------------------------------------
(* Two calls at the same time on the same manifest path.  Here pc and run
   are functions of the process.  A call enters (lines 84-85: it reads the
   previous manifest), then scans, fingerprints and lists the orphans (lines
   86-163) while the other call and the files go on, then persists (lines
   23-27) step by step.  run[i].seen is the timeline of the trees since call
   i entered, run[i].now its clock; run[i].at is the name under which the
   file that process i has open for writing is found, run[i].shared tells
   that another process wrote to that file while i was writing it. *)

Procs == {1, 2}

SlotsTwo ==
    [p \in {Pq0, Wrist0} |->
        CASE p = Wrist0 -> {None, Some(FileA), Some(FileNoStat)}
          [] OTHER -> {None, Some(FileA)}]

NoCallTwo == [args |-> DefaultArgs, prev |-> Absent, df_all |-> <<>>, now |-> 0,
              seen |-> << >>, scanned |-> {}, unstable |-> {}, at |-> "none", shared |-> FALSE]

InitTwo ==
    /\ tree \in TreesOf(SlotsTwo)
    /\ disk = [f \in {"out", "tmp"} |-> Absent]
    /\ pc = [i \in Procs |-> "idle"]
    /\ run = [i \in Procs |-> NoCallTwo]
    /\ last = NoRun
    /\ before = NoRun
    /\ nruns = 0
    /\ nchanges = 0

\* lines 84-85 of process i: it reads the manifest the path holds now
EnterTwo(i, args) ==
    /\ pc[i] = "idle" /\ nruns < MaxRuns
    /\ disk["out"].state # "partial"
    /\ run' = [run EXCEPT ![i] = [NoCallTwo EXCEPT !.args = args, !.prev = disk["out"],
                                                   !.now = nruns + 1, !.seen = <<tree>>]]
    /\ pc' = [pc EXCEPT ![i] = "scan"]
    /\ nruns' = nruns + 1
    /\ UNCHANGED <<tree, disk, last, before, nchanges>>

\* line 85 of process i raises: the manifest file cannot be read
EnterRaisesTwo(i, args) ==
    /\ pc[i] = "idle" /\ nruns < MaxRuns
    /\ disk["out"].state # "absent"
    /\ Finish("error", "read_manifest", args, <<tree>>, {}, {}, disk["out"], disk, <<>>)
    /\ nruns' = nruns + 1
    /\ UNCHANGED <<tree, disk, pc, run, nchanges>>

\* the recorder or an operator changes a file: every call between its
\* lines 85 and 164 has one more tree in its timeline
FsChangeTwo ==
    /\ nchanges < MaxChanges
    /\ \E p \in DOMAIN SlotsTwo : \E v \in SlotsTwo[p] \ {tree[p]} :
          tree' = [tree EXCEPT ![p] = v]
    /\ run' = [j \in Procs |->
                 IF pc[j] = "scan" THEN [run[j] EXCEPT !.seen = Append(@, tree')] ELSE run[j]]
    /\ nchanges' = nchanges + 1
    /\ UNCHANGED <<disk, pc, last, before, nruns>>

\* lines 86-163 of process i, over the trees since it entered
StartTwo(i) ==
    /\ pc[i] = "scan"
    /\ LET c == run[i]
           prev == LoadPrev([out |-> c.prev])
       IN \E x \in Executions(c.seen, c.args) :
             /\ ~RunRaises(x, prev, c.args, c.now)
             /\ \E df_all \in SortedArrangements(UnsortedAll(x, prev, c.args, c.now)) :
                   run' = [run EXCEPT ![i] = [c EXCEPT !.df_all = df_all, !.scanned = Range(x.q),
                                                       !.unstable = Unstable(x)]]
    /\ pc' = [pc EXCEPT ![i] = "write"]
    /\ UNCHANGED <<tree, disk, last, before, nruns, nchanges>>

\* process i raises between its lines 86 and 163
StartRaisesTwo(i) ==
    /\ pc[i] = "scan"
    /\ LET c == run[i] IN
       \E x \in Executions(c.seen, c.args) :
       \E cause \in RaiseCauses(x, [out |-> c.prev], c.args, c.now) \ {"read_manifest"} :
          Finish("error", cause, c.args, c.seen, Dispatched(x, cause),
                 Unstable(x) \cap Dispatched(x, cause), c.prev, disk, <<>>)
    /\ pc' = [pc EXCEPT ![i] = "idle"]
    /\ UNCHANGED <<tree, disk, run, nruns, nchanges>>

\* line 26 of process i, first part: the temporary file is opened for
\* writing, which empties it when it exists; a process still writing to it
\* goes on writing to the same file
BeginWriteTwo(i) ==
    /\ pc[i] = "write"
    /\ disk' = [disk EXCEPT ![TmpPath("out")] = Partial]
    /\ LET others == {j \in Procs \ {i} : pc[j] = "writing" /\ run[j].at = TmpPath("out")} IN
       run' = [j \in Procs |->
                 IF j = i THEN [run[j] EXCEPT !.at = TmpPath("out"), !.shared = (others # {})]
                 ELSE IF j \in others THEN [run[j] EXCEPT !.shared = TRUE]
                 ELSE run[j]]
    /\ pc' = [pc EXCEPT ![i] = "writing"]
    /\ UNCHANGED <<tree, last, before, nruns, nchanges>>

\* line 26 of process i, second part: its last byte is written; the file
\* is its snapshot, or a mix when another process wrote to the same file
FinishWriteTwo(i) ==
    /\ pc[i] = "writing"
    /\ \E content \in (IF run[i].shared THEN {Partial, Complete(run[i].df_all)}
                        ELSE {Complete(run[i].df_all)}) :
          disk' = [disk EXCEPT ![run[i].at] = content]
    /\ pc' = [pc EXCEPT ![i] = "replace"]
    /\ UNCHANGED <<tree, run, last, before, nruns, nchanges>>

\* line 27 of process i: the rename takes whatever file has the temporary
\* name, and raises FileNotFoundError when there is none
ReplaceTwo(i) ==
    /\ pc[i] = "replace"
    /\ IF disk[TmpPath("out")].state = "absent"
       THEN /\ Finish("error", "write", run[i].args, run[i].seen, run[i].scanned, run[i].unstable,
                      run[i].prev, disk, <<>>)
            /\ UNCHANGED <<disk, run>>
       ELSE /\ disk' = OsReplace(disk, TmpPath("out"), "out")
            /\ run' = [j \in Procs |->
                         IF run[j].at = TmpPath("out") THEN [run[j] EXCEPT !.at = "out"]
                         ELSE IF run[j].at = "out" THEN [run[j] EXCEPT !.at = "none"]
                         ELSE run[j]]
            /\ Finish("ok", "return", run[i].args, run[i].seen, run[i].scanned, run[i].unstable,
                      run[i].prev, disk', Returned(run[i].df_all))
    /\ pc' = [pc EXCEPT ![i] = "idle"]
    /\ UNCHANGED <<tree, nruns, nchanges>>

NextTwo ==
    \/ \E i \in Procs : \E args \in {DefaultArgs} : EnterTwo(i, args)
    \/ \E i \in Procs : \E args \in {DefaultArgs} : EnterRaisesTwo(i, args)
    \/ FsChangeTwo
    \/ \E i \in Procs : StartTwo(i)
    \/ \E i \in Procs : StartRaisesTwo(i)
    \/ \E i \in Procs : BeginWriteTwo(i)
    \/ \E i \in Procs : FinishWriteTwo(i)
    \/ \E i \in Procs : ReplaceTwo(i)

SpecTwo == InitTwo /\ [][NextTwo]_vars

----------------------------------------------------------------------------
(* Vocabulary of the properties *)

\* the enum member a status string denotes, in either representation
StatusName(str) == CHOOSE m \in Status : str \in {StatusValue(m), StatusStr(m)}

Count(rows, P(_)) == Cardinality({i \in 1..Len(rows) : P(rows[i])})

\* the trajectory files a finished call dispatched for fingerprinting
Scanned(c) == c.scanned

\* no file changed while the call ran
Quiet(c) == Len(c.seen) = 1

\* the key under which a scanned trajectory file is reported
ScanKey(p) ==
    <<p[1], IF IsSome(EpisodeIndexFromName(p)) THEN Get(EpisodeIndexFromName(p)) ELSE 0 - 1>>

\* the trajectory file and the two videos of an episode with a parseable name
EpisodeFiles(p) ==
    {p, VideoPath(p[1], CAMERAS[1], ScanKey(p)[2]), VideoPath(p[1], CAMERAS[2], ScanKey(p)[2])}

\* all three files exist and can be read
Healthy(t, p) ==
    /\ IsSome(EpisodeIndexFromName(p))
    /\ \A f \in EpisodeFiles(p) : Exists(t, f) /\ Get(FileAt(t, f)).access = "ok"

\* fingerprinting the episode raises: one of its existing files cannot be read
Unreadable(t, p) ==
    /\ IsSome(EpisodeIndexFromName(p))
    /\ \E f \in EpisodeFiles(p) : Exists(t, f) /\ Get(FileAt(t, f)).access # "ok"

\* the fingerprints the previous manifest holds for a key
PrevFingerprints(prevfile, key) ==
    {x.fingerprint : x \in {y \in Range(prevfile.rows) : Key(y) = key /\ IsSome(y.fingerprint)}}

RowsOf(snap, p) == {r \in Range(snap.rows) : r.parquet_uri = Some(p)}

\* the last two finished calls both returned, with the same arguments, the
\* second on the manifest of the first, the tree unchanged and at rest
TwoQuietRuns ==
    /\ before.outcome = "ok" /\ last.outcome = "ok"
    /\ Quiet(before) /\ Quiet(last)
    /\ last.tree = before.tree /\ last.args = before.args
    /\ last.prev = before.snap

\* the rows without their discovered_at
StripTime(rows) == [i \in 1..Len(rows) |-> [rows[i] EXCEPT !.discovered_at = 0]]

\* the last two finished calls both returned, on the same tree at rest, from
\* the same previous manifest and with the same arguments, the worker count
\* apart
SameInputs ==
    /\ before.outcome = "ok" /\ last.outcome = "ok"
    /\ Quiet(before) /\ Quiet(last)
    /\ last.tree = before.tree
    /\ last.prev = before.prev
    /\ [last.args EXCEPT !.workers = 0] = [before.args EXCEPT !.workers = 0]

----------------------------------------------------------------------------
(* Properties *)

\* C1: after a call, the row of every scanned episode whose three files
\* exist, are readable and stable is NEW when the previous manifest holds no
\* fingerprint for its key, UNCHANGED when the new fingerprint equals the
\* previous one, CHANGED when it differs (no file changing during the call).
C1_StatusFromPreviousFingerprint ==
    (last.outcome = "ok" /\ Quiet(last)) =>
        \A p \in Scanned(last) : Healthy(last.tree, p) =>
            /\ RowsOf(last.snap, p) # {}
            /\ \A r \in RowsOf(last.snap, p) :
                  LET fps == PrevFingerprints(last.prev, Key(r)) IN
                  StatusName(r.status) =
                      IF fps = {} THEN "NEW"
                      ELSE IF r.fingerprint \in fps THEN "UNCHANGED" ELSE "CHANGED"

\* C2: in every call, the first one included, an episode whose fingerprinting
\* raised has a row with status ERROR, no fingerprint and a diagnostic, and
\* that row is not PENDING (no file changing during the call).
C2_FingerprintErrorIsErrorRow ==
    (last.outcome = "ok" /\ Quiet(last)) =>
        \A p \in Scanned(last) : Unreadable(last.tree, p) =>
            /\ RowsOf(last.snap, p) # {}
            /\ \A r \in RowsOf(last.snap, p) :
                  /\ StatusName(r.status) = "ERROR"
                  /\ IsNone(r.fingerprint)
                  /\ IsSome(r.errors)

\* C3: the rows a call returns are exactly the rows of the manifest it
\* persisted whose status is not UNCHANGED.
C3_ReturnsAllButUnchanged ==
    last.outcome = "ok" =>
        last.ret = SelectSeq(last.snap.rows, LAMBDA r : StatusName(r.status) # "UNCHANGED")

\* C4: a persisted manifest has at most one row per (chunk, episode_index).
C4_KeysUnique ==
    \A i, j \in 1..Len(disk["out"].rows) :
        Key(disk["out"].rows[i]) = Key(disk["out"].rows[j]) => i = j

\* C5: at every point of the persistence step, and after an interruption of
\* it, the manifest path holds the complete previous snapshot (or no file,
\* before the first one) or the complete new snapshot, never a partial file.
C5_ReaderSeesWholeSnapshot ==
    /\ disk["out"].state # "partial"
    /\ pc # "idle" => disk["out"] = run.prev
    /\ last.outcome = "killed" => last.snap = last.prev
    /\ last.outcome = "ok" => last.snap.state = "complete"

C5_Witness ==
    /\ last.outcome = "killed"
    /\ disk["tmp"].state = "partial"
    /\ disk["out"].state = "complete"
    /\ run.df_all # disk["out"].rows

\* C6: a call that returns leaves the complete new snapshot at the manifest
\* path; a call that raises (unreadable previous manifest, exception out of
\* a task, failed write) leaves the manifest path as it was before the call.
C6_NewSnapshotOrUntouched ==
    /\ (pc = "idle" /\ last.outcome = "ok") => disk["out"] = Complete(run.df_all)
    /\ last.outcome = "ok" => last.snap.state = "complete" /\ last.ret = Returned(last.snap.rows)
    /\ last.outcome = "error" => last.snap = last.prev
    /\ (pc = "idle" /\ last.outcome = "error") => disk["out"] = last.prev

C6_Witness ==
    /\ pc = "idle" /\ last.outcome = "error"
    /\ disk["out"].state = "complete"
    /\ disk["tmp"].state = "complete"
    /\ disk["tmp"] # disk["out"]

\* C7: when a call is repeated with the same arguments on an unchanged tree,
\* every row that was NEW or CHANGED after the first call is UNCHANGED after
\* the second.
C7_RepeatTurnsNewIntoUnchanged ==
    TwoQuietRuns =>
        \A r1 \in Range(before.snap.rows) :
            StatusName(r1.status) \in {"NEW", "CHANGED"} =>
                /\ \E r2 \in Range(last.snap.rows) :
                      Key(r2) = Key(r1) /\ r2.parquet_uri = r1.parquet_uri
                /\ \A r2 \in Range(last.snap.rows) :
                      (Key(r2) = Key(r1) /\ r2.parquet_uri = r1.parquet_uri)
                          => StatusName(r2.status) = "UNCHANGED"

\* C8: when a call is repeated with the same arguments on an unchanged tree,
\* every DELETED or ORPHAN_VIDEO row of the second manifest was in the first
\* manifest with the same key and status.
C8_RepeatAddsNoDeletedOrOrphan ==
    TwoQuietRuns =>
        \A r2 \in Range(last.snap.rows) :
            StatusName(r2.status) \in {"DELETED", "ORPHAN_VIDEO"} =>
                \E r1 \in Range(before.snap.rows) :
                    Key(r1) = Key(r2) /\ StatusName(r1.status) = StatusName(r2.status)

\* C9: a key of the previous manifest that the current scan does not produce
\* has exactly one row in the new manifest, and that row is DELETED, without
\* fingerprint and with all file fields cleared.
C9_DeletedKeyHasOneClearedRow ==
    last.outcome = "ok" =>
        \A key \in Keys(last.prev.rows) \ {ScanKey(p) : p \in Scanned(last)} :
            /\ Count(last.snap.rows, LAMBDA r : Key(r) = key) = 1
            /\ \A r \in Range(last.snap.rows) : Key(r) = key =>
                  /\ StatusName(r.status) = "DELETED"
                  /\ IsNone(r.fingerprint)
                  /\ IsNone(r.parquet_uri) /\ IsNone(r.video_front_uri) /\ IsNone(r.video_wrist_uri)
                  /\ ~r.exists_front /\ ~r.exists_wrist

\* the videos of the target chunks of a finished call for whose key the tree
\* holds no trajectory file
VideosWithoutTrajectory(h) ==
    {v \in AllPaths :
        /\ v[2] \in Range(CAMERAS) /\ Exists(h.tree, v)
        /\ v[1] \in Range(TargetChunks(h.tree, h.args.only_chunks))
        /\ IsSome(ParseInt(v[3]))
        /\ ~\E p \in AllPaths :
              p[2] = "data" /\ Exists(h.tree, p) /\ ScanKey(p) = <<v[1], Get(ParseInt(v[3]))>>}

OrphanRowsOf(snap, v) ==
    {i \in 1..Len(snap.rows) :
        /\ StatusName(snap.rows[i].status) = "ORPHAN_VIDEO"
        /\ Some(v) \in {snap.rows[i].video_front_uri, snap.rows[i].video_wrist_uri}}

\* C10: every video of a scanned chunk whose key has no trajectory file has
\* exactly one ORPHAN_VIDEO row in the new manifest, and that row names only
\* the camera view of the video (no file changing during the call).
C10_OneOrphanRowPerVideo ==
    (last.outcome = "ok" /\ Quiet(last)) =>
        \A v \in VideosWithoutTrajectory(last) :
            /\ Cardinality(OrphanRowsOf(last.snap, v)) = 1
            /\ \A i \in OrphanRowsOf(last.snap, v) :
                  LET r == last.snap.rows[i] IN
                  /\ Key(r) = <<v[1], Get(ParseInt(v[3]))>>
                  /\ IsNone(r.parquet_uri)
                  /\ r.exists_front = (v[2] = CAMERAS[1])
                  /\ r.exists_wrist = (v[2] = CAMERAS[2])
                  /\ r.video_front_uri = (IF v[2] = CAMERAS[1] THEN Some(v) ELSE None)
                  /\ r.video_wrist_uri = (IF v[2] = CAMERAS[2] THEN Some(v) ELSE None)

C10_Witness ==
    /\ last.outcome = "ok" /\ Quiet(last)
    /\ {Front0, Wrist0} \subseteq VideosWithoutTrajectory(last)
    /\ IsSome(last.args.since_ns)
    /\ Exists(last.tree, PqX)
    /\ last.prev.state = "complete"

\* C11: two calls on the same tree and the same previous manifest persist the
\* same sequence of rows (discovered_at apart), whatever their worker counts
\* and the completion order of their tasks, also when rows share a sort key.
C11_SameManifestForAnyOrder ==
    SameInputs => StripTime(last.snap.rows) = StripTime(before.snap.rows)

\* the existing files of the episode are readable and the call judged them
\* stable
ReadableAndStable(c, p) ==
    /\ \A f \in EpisodeFiles(p) : Exists(c.tree, f) => Get(FileAt(c.tree, f)).access = "ok"
    /\ p \notin c.unstable

\* C12: in every call, with or without a previous manifest, a scanned episode
\* whose trajectory file and front video exist, are readable and stable and
\* whose wrist video is absent has a row with status MISSING_SIDE,
\* exists_front true and exists_wrist false (no file changing during the
\* call).
C12_FrontOnlyIsMissingSide ==
    (last.outcome = "ok" /\ Quiet(last)) =>
        \A p \in Scanned(last) :
            (/\ IsSome(EpisodeIndexFromName(p))
             /\ Exists(last.tree, VideoPath(p[1], CAMERAS[1], ScanKey(p)[2]))
             /\ ~Exists(last.tree, VideoPath(p[1], CAMERAS[2], ScanKey(p)[2]))
             /\ ReadableAndStable(last, p)) =>
                /\ RowsOf(last.snap, p) # {}
                /\ \A r \in RowsOf(last.snap, p) :
                      /\ StatusName(r.status) = "MISSING_SIDE"
                      /\ r.exists_front /\ ~r.exists_wrist

\* C13: a scanned episode for which the stability check failed on one of
\* its existing files and whose fingerprinting raised no error has a row
\* with status PENDING in the manifest the call persists, with or without a
\* missing video and whatever the previous manifest holds.
C13_UnstableIsPending ==
    last.outcome = "ok" =>
        \A p \in last.unstable :
            /\ RowsOf(last.snap, p) # {}
            /\ \A r \in RowsOf(last.snap, p) :
                  IsNone(r.errors) => StatusName(r.status) = "PENDING"

\* C14: a call that got as far as its fingerprinting tasks and was not
\* stopped by the manifest file itself returns even when a file of a scanned
\* episode raises an I/O error at its existence check, stat or read: the
\* manifest it persists has an ERROR row for that episode and the rows of
\* all other scanned episodes.
C14_EpisodeIoErrorNeverAborts ==
    (/\ last.outcome \in {"ok", "error"} /\ Quiet(last)
     /\ last.cause \notin {"read_manifest", "scan", "orphan_pass", "write"}) =>
        \A p \in Scanned(last) : Unreadable(last.tree, p) =>
            /\ last.outcome = "ok"
            /\ RowsOf(last.snap, p) # {}
            /\ \A r \in RowsOf(last.snap, p) : StatusName(r.status) = "ERROR"
            /\ \A q \in Scanned(last) : RowsOf(last.snap, q) # {}

\* C15: every row of a persisted manifest carries one of the eight statuses,
\* written in the representation both status filters compare against: a row
\* with an actionable status is selected by discovery's filter, and a row
\* with a status the validation stage acts on is selected by its filter.
C15_OneStatusRepresentation ==
    \A r \in Range(disk["out"].rows) :
        /\ \E m \in Status : r.status \in {StatusValue(m), StatusStr(m)}
        /\ StatusName(r.status) # "UNCHANGED" => r.status \in ActionableStrs
        /\ StatusName(r.status) \in ACTIONABLE => ValidationSelects(r)

C17_DeletedAndOrphanHaveNoFingerprint ==
    \A r \in Range(disk["out"].rows) :
        StatusName(r.status) \in {"DELETED", "ORPHAN_VIDEO"} => IsNone(r.fingerprint)

C17_Witness ==
    /\ last.outcome = "ok" /\ disk["out"] = last.snap
    /\ \E r \in Range(disk["out"].rows) :
          StatusName(r.status) = "DELETED" /\ PrevFingerprints(last.prev, Key(r)) # {}
    /\ \E r \in Range(disk["out"].rows) :
          StatusName(r.status) = "ORPHAN_VIDEO" /\ r.bytes_total > 0

\* C18: bytes_total of every manifest row is the sum of the sizes of the
\* files fingerprinted for it, hence 0 for a row without fingerprint
\* (DELETED, ORPHAN_VIDEO, ERROR).
C18_BytesTotalIsSumOfFingerprinted ==
    \A r \in Range(disk["out"].rows) :
        r.bytes_total =
            IF IsSome(r.fingerprint)
            THEN SumSizes(Get(r.fingerprint), DOMAIN Get(r.fingerprint))
            ELSE 0

\* C19: after reconciliation a current row is UNCHANGED exactly when it has
\* a fingerprint and the previous manifest holds the same fingerprint for
\* its key.
C19_UnchangedIffSameFingerprint ==
    last.outcome = "ok" =>
        \A r \in Range(last.snap.rows) : IsSome(r.parquet_uri) =>
            (StatusName(r.status) = "UNCHANGED"
                <=> (IsSome(r.fingerprint)
                     /\ r.fingerprint \in PrevFingerprints(last.prev, Key(r))))

C19_Witness ==
    /\ before.outcome = "ok" /\ last.outcome = "ok"
    /\ last.prev = before.snap
    /\ \E r1 \in RowsOf(before.snap, Pq0) : \E r2 \in RowsOf(last.snap, Pq0) :
          /\ StatusName(r1.status) # "UNCHANGED" /\ StatusName(r2.status) = "UNCHANGED"
          /\ r1.fingerprint = r2.fingerprint
    /\ \E r \in RowsOf(last.snap, PqX) : StatusName(r.status) = "ERROR"

\* C20: a call reports a video as ORPHAN_VIDEO only when the tree holds no
\* trajectory file for its key; a video whose trajectory file exists but was
\* left out of the scan by the since filter is not reported (no file
\* changing during the call).
C20_OrphanOnlyWithoutTrajectory ==
    (last.outcome = "ok" /\ Quiet(last)) =>
        \A r \in Range(last.snap.rows) : StatusName(r.status) = "ORPHAN_VIDEO" =>
            ~\E p \in AllPaths :
                p[2] = "data" /\ Exists(last.tree, p) /\ ScanKey(p) = Key(r)

\* the rows of a snapshot that stand for a trajectory file
TrajectoryRows(snap) ==
    {i \in 1..Len(snap.rows) : StatusName(snap.rows[i].status) \notin {"DELETED", "ORPHAN_VIDEO"}}

\* C21: the manifest a call persists has exactly one row that is neither
\* DELETED nor ORPHAN_VIDEO for each trajectory file it dispatched for
\* fingerprinting, and no other such row, whatever rows (rows sharing a key
\* included) the previous manifest holds.
C21_OneRowPerDispatchedFile ==
    last.outcome = "ok" =>
        /\ \A p \in Scanned(last) :
              Cardinality({i \in TrajectoryRows(last.snap) :
                              last.snap.rows[i].parquet_uri = Some(p)}) = 1
        /\ \A i \in TrajectoryRows(last.snap) :
              \E p \in Scanned(last) : last.snap.rows[i].parquet_uri = Some(p)

\* max(1, min(workers, 64)), written out
Clamp(workers) == IF workers < 1 THEN 1 ELSE IF workers > 64 THEN 64 ELSE workers

\* the trajectory files for which a task is submitted, queued, running, done
TasksOf(r) == Range(r.queue) \cup r.running \cup r.done

C22_PoolWithinBounds ==
    pc = "pool" =>
        /\ run.max_workers = Clamp(run.args.workers)
        /\ run.max_workers >= 1
        /\ Cardinality(run.running) <= run.threads
        /\ run.threads <= Clamp(run.args.workers)
        /\ Len(run.queue) = Cardinality(Range(run.queue))
        /\ Len(run.todo) = Cardinality(Range(run.todo))
        /\ Range(run.queue) \cap (run.running \cup run.done) = {}
        /\ run.running \cap run.done = {}
        /\ Range(run.todo) \cap TasksOf(run) = {}
        /\ Range(run.todo) \cup TasksOf(run) \subseteq ListParquets(tree, "000")

\* C22: for every integer workers (0, negative and above 64 included) the
\* tasks running at the same time never exceed max(1, min(workers, 64)), the
\* pool has at least one worker and every submitted task eventually runs,
\* and a trajectory file has at most one task.
C22_BoundedPoolRunsEveryTask ==
    /\ []C22_PoolWithinBounds
    /\ \A p \in AllPaths :
          (pc = "pool" /\ p \in Range(run.queue))
              ~> (pc = "pool" /\ p \in run.running \cup run.done)

C22_Witness ==
    /\ pc = "pool"
    /\ run.args.workers < 1
    /\ Cardinality(run.running) = 1
    /\ Len(run.queue) = 2
    /\ run.threads = 1

\* C23: the rows of a persisted manifest are in non-decreasing order of
\* (chunk, episode_index), whatever the completion order of the tasks and
\* the order in which current, deleted and orphan rows were concatenated.
C23_ManifestSortedByKey ==
    \A i, j \in 1..Len(disk["out"].rows) : i < j =>
        LET a == disk["out"].rows[i]
            b == disk["out"].rows[j]
        IN \/ ChunkRank(a.chunk) < ChunkRank(b.chunk)
           \/ a.chunk = b.chunk /\ a.episode_index <= b.episode_index

C23_Witness ==
    /\ last.outcome = "ok" /\ disk["out"] = last.snap
    /\ Len(last.snap.rows) >= 3
    /\ \E i, j \in 1..Len(last.snap.rows) :
          /\ i < j
          /\ StatusName(last.snap.rows[i].status) \in {"DELETED", "ORPHAN_VIDEO"}
          /\ last.snap.rows[i].chunk = "000"
          /\ last.snap.rows[j].parquet_uri = Some(Pq0Chunk1)

\* C24: every key of the previous manifest is a key of the manifest the next
\* successful call persists, as a current row or as a DELETED row; a key
\* that was DELETED in the previous manifest and whose trajectory file is
\* absent all through the call is DELETED again.
C24_KeySetNeverShrinks ==
    last.outcome = "ok" =>
        /\ \A key \in Keys(last.prev.rows) :
              \E r \in Range(last.snap.rows) :
                  Key(r) = key /\ (IsSome(r.parquet_uri) \/ StatusName(r.status) = "DELETED")
        /\ \A r1 \in Range(last.prev.rows) :
              (/\ StatusName(r1.status) = "DELETED"
               /\ ~\E t \in Range(last.seen) : \E p \in AllPaths :
                     p[2] = "data" /\ Exists(t, p) /\ ScanKey(p) = Key(r1)) =>
                  \E r2 \in Range(last.snap.rows) :
                      Key(r2) = Key(r1) /\ StatusName(r2.status) = "DELETED"

C24_Witness ==
    /\ before.outcome = "ok" /\ last.outcome = "ok"
    /\ last.prev = before.snap
    /\ ~Exists(last.tree, Pq0) /\ Exists(last.tree, Pq0Chunk1)
    /\ \E r0 \in Range(before.prev.rows) : Key(r0) = <<"000", 0>> /\ IsSome(r0.fingerprint)
    /\ \E r1 \in Range(last.prev.rows) : Key(r1) = <<"000", 0>> /\ StatusName(r1.status) = "DELETED"
    /\ \E r2 \in Range(last.snap.rows) : Key(r2) = <<"000", 0>> /\ StatusName(r2.status) = "DELETED"
    /\ \E r2 \in Range(last.snap.rows) : r2.parquet_uri = Some(Pq0Chunk1)

\* C25: while two calls run at the same time on one manifest path, the
\* manifest path never holds a partially written file or a mix of both
\* calls' output: it has no file yet or the complete snapshot of one call.
C25_TwoRunsManifestWhole ==
    disk["out"].state # "partial"

\* C26: in a call restricted by since or only_chunks, a key of the previous
\* manifest gets a DELETED row only if no trajectory file of that key exists
\* on disk; an episode merely left out of the scan by the filter is not
\* reported DELETED (no file changing during the call).
C26_FilteredOutIsNotDeleted ==
    (/\ last.outcome = "ok" /\ Quiet(last)
     /\ last.prev.state = "complete"
     /\ IsSome(last.args.since_ns) \/ IsSome(last.args.only_chunks))
    => \A i \in 1..Len(last.snap.rows) :
          LET r == last.snap.rows[i] IN
          (/\ StatusName(r.status) = "DELETED"
           /\ \E j \in 1..Len(last.prev.rows) : Key(last.prev.rows[j]) = Key(r))
          => ~\E p \in DOMAIN last.tree :
                 p[2] = "data" /\ Exists(last.tree, p) /\ ScanKey(p) = Key(r)

\* the scanned episodes the call before the last left PENDING and whose
\* three files exist, can be read and are at rest in the last call, which
\* ran on the manifest of the call before
ResolvedPending ==
    IF before.outcome = "ok" /\ last.outcome = "ok" /\ last.prev = before.snap /\ Quiet(last)
    THEN {p \in Scanned(last) :
            /\ Healthy(last.tree, p)
            /\ \E r \in RowsOf(before.snap, p) : StatusName(r.status) = "PENDING"}
    ELSE {}

\* a file of the episode holds in the last call other bytes than at any
\* moment of the call before, or did not exist then
ContentMoved(p) ==
    \E f \in EpisodeFiles(p) : \A i \in 1..Len(before.seen) :
        \/ ~Exists(before.seen[i], f)
        \/ RleNorm(Get(before.seen[i][f]).data) # RleNorm(Get(last.tree[f]).data)

\* C27: an episode PENDING in one call whose files all exist, are complete
\* and are at rest in the next call is not PENDING in the manifest of that
\* next call: its status is the one of the ordinary policy (NEW without a
\* stored fingerprint, UNCHANGED with the stored fingerprint, CHANGED with
\* another one), and when its content differs from what the earlier call
\* fingerprinted its status is an actionable one.
C27_PendingResolvesNextRun ==
    \A p \in ResolvedPending :
        /\ RowsOf(last.snap, p) # {}
        /\ \A r \in RowsOf(last.snap, p) :
              LET fps == PrevFingerprints(last.prev, Key(r)) IN
              /\ StatusName(r.status) # "PENDING"
              /\ StatusName(r.status) =
                    IF fps = {} THEN "NEW"
                    ELSE IF r.fingerprint \in fps THEN "UNCHANGED" ELSE "CHANGED"
              /\ ContentMoved(p) => StatusName(r.status) \in ACTIONABLE

\* C27 without the name of the status: the episode is not PENDING in the
\* next call, and when its content differs from what the earlier call
\* fingerprinted its status is an actionable one.
C27_MovedContentIsActionable ==
    \A p \in ResolvedPending :
        /\ RowsOf(last.snap, p) # {}
        /\ \A r \in RowsOf(last.snap, p) :
              /\ StatusName(r.status) # "PENDING"
              /\ ContentMoved(p) => StatusName(r.status) \in ACTIONABLE

\* the episodes both of the last two calls fingerprinted, the later call on
\* the manifest of the earlier one and with the same full_hash setting, the
\* files changing between the calls only
FingerprintedTwice ==
    IF /\ before.outcome = "ok" /\ last.outcome = "ok"
       /\ Quiet(before) /\ Quiet(last)
       /\ last.prev = before.snap
       /\ last.args.full_hash = before.args.full_hash
    THEN {p \in Scanned(last) \cap Scanned(before) :
            /\ IsSome(EpisodeIndexFromName(p))
            /\ \A r \in RowsOf(last.snap, p) \cup RowsOf(before.snap, p) : IsSome(r.fingerprint)}
    ELSE {}

\* the later call computed another fingerprint than the earlier one and did
\* not classify the episode UNCHANGED
FingerprintMoved(p) ==
    \A r \in RowsOf(last.snap, p) :
        /\ \A x \in RowsOf(before.snap, p) : x.fingerprint # r.fingerprint
        /\ StatusName(r.status) # "UNCHANGED"

\* a file of the episode appeared or disappeared between the two calls
PresenceChanged(p) ==
    \E f \in EpisodeFiles(p) : Exists(before.tree, f) # Exists(last.tree, f)

\* a file of the episode has other bytes in the later call
ContentChanged(p) ==
    \E f \in EpisodeFiles(p) :
        /\ Exists(before.tree, f) /\ Exists(last.tree, f)
        /\ RleNorm(Get(before.tree[f]).data) # RleNorm(Get(last.tree[f]).data)

\* the first and the last SAMPLE_BYTES bytes of a file
HeadSample(f) == RleNorm(RleRead(f.data, 0, SAMPLE_BYTES))
TailSample(f) == RleNorm(RleRead(f.data, Max2(0, FileSize(f) - SAMPLE_BYTES), SAMPLE_BYTES))

\* a file of the episode changed its size, its modification time or the
\* bytes the calls digest: all of them with full_hash, the head and tail
\* samples without
DigestedChanged(p) ==
    \E f \in EpisodeFiles(p) :
        /\ Exists(before.tree, f) /\ Exists(last.tree, f)
        /\ LET old == Get(before.tree[f])
               new == Get(last.tree[f])
           IN \/ FileSize(old) # FileSize(new)
              \/ old.mtime # new.mtime
              \/ IF last.args.full_hash THEN RleNorm(old.data) # RleNorm(new.data)
                 ELSE HeadSample(old) # HeadSample(new) \/ TailSample(old) # TailSample(new)

\* C28 (as stated): any change of the content of a constituent file, or a
\* video appearing or disappearing, between two calls changes the episode
\* fingerprint of the later call, so the episode is not UNCHANGED.
C28_AnyChangeMovesFingerprint ==
    \A p \in FingerprintedTwice :
        (PresenceChanged(p) \/ ContentChanged(p)) => FingerprintMoved(p)

\* C28 (amended): a video appearing or disappearing, or a change of a
\* constituent file's size, modification time or digested bytes (the whole
\* file with full_hash, its first and last SAMPLE_BYTES bytes without),
\* changes the episode fingerprint of the later call, so the episode is not
\* UNCHANGED.
C28_DigestedChangeMovesFingerprint ==
    \A p \in FingerprintedTwice :
        (PresenceChanged(p) \/ DigestedChanged(p)) => FingerprintMoved(p)

C28_WitnessPresence ==
    /\ \E p \in FingerprintedTwice : PresenceChanged(p) /\ FingerprintMoved(p)
    /\ nchanges > 0

\* one file of the episode differs between the two calls, in exactly the
\* respects named TRUE: its size, its modification time, its head sample,
\* its tail sample
SoleChange(p, size, mtime, head, tail) ==
    \E f \in EpisodeFiles(p) :
        /\ Exists(before.tree, f) /\ Exists(last.tree, f)
        /\ \A g \in EpisodeFiles(p) \ {f} : FileAt(before.tree, g) = FileAt(last.tree, g)
        /\ LET old == Get(before.tree[f])
               new == Get(last.tree[f])
           IN /\ (FileSize(old) # FileSize(new)) = size
              /\ (old.mtime # new.mtime) = mtime
              /\ (HeadSample(old) # HeadSample(new)) = head
              /\ (TailSample(old) # TailSample(new)) = tail

\* without full_hash, a byte of the tail sample alone was rewritten
C28_Witness ==
    \E p \in FingerprintedTwice :
        /\ ~last.args.full_hash
        /\ SoleChange(p, FALSE, FALSE, FALSE, TRUE) /\ FingerprintMoved(p)

\* without full_hash, a byte of the head sample alone was rewritten
C28_WitnessHead ==
    \E p \in FingerprintedTwice :
        /\ ~last.args.full_hash
        /\ SoleChange(p, FALSE, FALSE, TRUE, FALSE) /\ FingerprintMoved(p)

\* without full_hash, the size alone changed
C28_WitnessSize ==
    \E p \in FingerprintedTwice :
        /\ ~last.args.full_hash
        /\ SoleChange(p, TRUE, FALSE, FALSE, FALSE) /\ FingerprintMoved(p)

\* without full_hash, the modification time alone changed
C28_WitnessMtime ==
    \E p \in FingerprintedTwice :
        /\ ~last.args.full_hash
        /\ SoleChange(p, FALSE, TRUE, FALSE, FALSE) /\ FingerprintMoved(p)

\* with full_hash, a byte between the two samples alone was rewritten
C28_WitnessFull ==
    \E p \in FingerprintedTwice :
        /\ last.args.full_hash /\ ContentChanged(p)
        /\ SoleChange(p, FALSE, FALSE, FALSE, FALSE) /\ FingerprintMoved(p)

\* the digest input the sampling rule "head, and tail exactly when the size
\* exceeds twice sample_bytes" gives for a file
SampleAboveTwice(f) ==
    IF FileSize(f) > 2 * SAMPLE_BYTES
    THEN RleNorm(RleRead(f.data, 0, SAMPLE_BYTES)
                 \o RleRead(f.data, FileSize(f) - SAMPLE_BYTES, SAMPLE_BYTES))
    ELSE RleNorm(RleRead(f.data, 0, SAMPLE_BYTES))

\* the parts that rule gives for the existing files of an episode
PartsAboveTwice(t, p) ==
    LET at(n) == IF n = "parquet" THEN p
                 ELSE VideoPath(p[1], n, ScanKey(p)[2])
        names == {n \in {"parquet", CAMERAS[1], CAMERAS[2]} : Exists(t, at(n))}
    IN [n \in names |-> [size |-> FileSize(Get(t[at(n)])), mtime_ns |-> Get(t[at(n)]).mtime,
                         sha |-> SampleAboveTwice(Get(t[at(n)]))]]

\* C29: with full_hash false every file digest is taken over the first
\* sample_bytes bytes, and over the last sample_bytes bytes too exactly when
\* the file is larger than twice sample_bytes; a file of at most twice
\* sample_bytes has only its head digested (no file changing during the
\* call).
C29_TailSampledAboveTwiceSample ==
    (last.outcome = "ok" /\ Quiet(last) /\ ~last.args.full_hash) =>
        \A p \in Scanned(last) : \A r \in RowsOf(last.snap, p) :
            (IsSome(EpisodeIndexFromName(p)) /\ IsSome(r.fingerprint)) =>
                r.fingerprint = Some(CombineEpisodeFingerprint(PartsAboveTwice(last.tree, p)))

\* the same for the files outside (sample_bytes, 2 * sample_bytes]
C29_RuleOutsideTheGap ==
    (last.outcome = "ok" /\ Quiet(last) /\ ~last.args.full_hash) =>
        \A p \in Scanned(last) : \A r \in RowsOf(last.snap, p) :
            (/\ IsSome(EpisodeIndexFromName(p)) /\ IsSome(r.fingerprint)
             /\ \A f \in EpisodeFiles(p) : Exists(last.tree, f) =>
                    \/ FileSize(Get(last.tree[f])) <= SAMPLE_BYTES
                    \/ FileSize(Get(last.tree[f])) > 2 * SAMPLE_BYTES) =>
                r.fingerprint = Some(CombineEpisodeFingerprint(PartsAboveTwice(last.tree, p)))

====

